---- MODULE Spec2Model ----
(***************************************************************************)
(* Style-driven composition engine of the presentation generator:          *)
(* the style catalog (src/src/styles.py), the PowerPoint exporter          *)
(* (src/src/exporter.py), the HTML renderer (src/src/renderer.py) and the  *)
(* parts of the orchestrator (src/nano_banana_app.py) that feed them.      *)
(*                                                                         *)
(* Python strings whose characters matter (colour codes, badge texts) are  *)
(* sequences of one-character strings; dictionaries are functions; a       *)
(* raised exception is a value carrying the exception's name.              *)
(***************************************************************************)
EXTENDS Integers, Sequences, FiniteSets, TLC

(***************************************************************************)
(* Bounds of the model.                                                    *)
(***************************************************************************)
\* Longest deck handed to the exporter / renderer.
MaxSlides == 3

\* Largest 1-based slide position whose badge text is formatted.
MaxBadgeIndex == 120

\* Number of hexadecimal digit characters (a prefix of HexChars) that the
\* colour strings given to _hex_to_rgb are built from.
NumHexChars == 6

\* Longest session slide list of the orchestrator.
MaxSessionSlides == 2

\* Longest deck whose slides carry the background payloads of ImagePayloads.
MaxImageSlides == 2

\* Largest total slide count whose progress-dot row is laid out.
MaxDotTotal == 60

\* Largest number of parts in a response of the image model.
MaxParts == 3

\* Longest background payload (in tokens) given to _set_background alone.
MaxPayloadLen == 3

\* Longest slide list given to create_pptx_from_slides / create_html_preview.
MaxDeckSlides == 2

\* Largest number of slides the user adds to the session of main.
MaxAppSlides == 2

(***************************************************************************)
(* Strings.                                                                *)
(***************************************************************************)
Min(a, b) == IF a <= b THEN a ELSE b

\* Python s[i:j] for 0 <= i <= j: clipped to the string, never an error.
Slice(s, i, j) == SubSeq(s, i + 1, Min(j, Len(s)))

\* Python str.lstrip(ch): drops every leading occurrence of ch.
RECURSIVE lstrip(_, _)
lstrip(s, ch) ==
    IF s # <<>> /\ Head(s) = ch THEN lstrip(Tail(s), ch) ELSE s

\* Python str.rstrip() for a text whose only whitespace is " ".
RECURSIVE rstrip(_, _)
rstrip(s, ch) ==
    IF s # <<>> /\ s[Len(s)] = ch THEN rstrip(SubSeq(s, 1, Len(s) - 1), ch)
    ELSE s

\* Python str.strip() for a text whose only whitespace is " ".
strip(s) == rstrip(lstrip(s, " "), " ")

DecimalDigits == <<"0", "1", "2", "3", "4", "5", "6", "7", "8", "9">>

\* Python str(n) for n >= 0: the decimal digits, most significant first.
RECURSIVE str(_)
str(n) ==
    IF n < 10 THEN <<DecimalDigits[n + 1]>>
    ELSE str(n \div 10) \o <<DecimalDigits[(n % 10) + 1]>>

\* Python str.zfill(width) for an unsigned numeral: zeros are added on the
\* left until the text is width long; a longer text is returned unchanged.
RECURSIVE zfill(_, _)
zfill(s, width) ==
    IF Len(s) >= width THEN s ELSE zfill(<<"0">> \o s, width)

(***************************************************************************)
(* src/src/styles.py                                                       *)
(***************************************************************************)
\* class StyleType(str, Enum): the members' values.
StyleType ==
    {"default", "taipei_metro", "modern_cafe", "minimal_concrete",
     "warm_wood", "tech_gradient", "flat_infographic"}

METRO_STYLE ==
    [name |-> "Taipei Metro",
     layout_template_name |-> "metro",
     logic_color_map |->
        ("point_opening" :> <<"#", "E", "3", "0", "0", "2", "C">>) @@
        ("reasons"       :> <<"#", "C", "4", "8", "C", "3", "1">>) @@
        ("examples"      :> <<"#", "0", "0", "7", "0", "B", "D">>) @@
        ("point_closing" :> <<"#", "0", "0", "8", "6", "5", "9">>) @@
        ("default"       :> <<"#", "3", "3", "3", "3", "3", "3">>)]

MODERN_CAFE_STYLE ==
    [name |-> "Modern Cafe",
     layout_template_name |-> "metro",
     logic_color_map |->
        ("point_opening" :> <<"#", "8", "B", "4", "5", "1", "3">>) @@
        ("reasons"       :> <<"#", "D", "2", "6", "9", "1", "E">>) @@
        ("examples"      :> <<"#", "6", "B", "8", "E", "2", "3">>) @@
        ("point_closing" :> <<"#", "C", "D", "8", "5", "3", "F">>) @@
        ("default"       :> <<"#", "5", "D", "4", "E", "3", "7">>)]

MINIMAL_CONCRETE_STYLE ==
    [name |-> "Minimal Concrete",
     layout_template_name |-> "metro",
     logic_color_map |->
        ("point_opening" :> <<"#", "7", "0", "8", "0", "9", "0">>) @@
        ("reasons"       :> <<"#", "2", "F", "4", "F", "4", "F">>) @@
        ("examples"      :> <<"#", "6", "9", "6", "9", "6", "9">>) @@
        ("point_closing" :> <<"#", "7", "7", "8", "8", "9", "9">>) @@
        ("default"       :> <<"#", "8", "0", "8", "0", "8", "0">>)]

WARM_WOOD_STYLE ==
    [name |-> "Warm Wood",
     layout_template_name |-> "metro",
     logic_color_map |->
        ("point_opening" :> <<"#", "D", "E", "B", "8", "8", "7">>) @@
        ("reasons"       :> <<"#", "C", "D", "8", "5", "3", "F">>) @@
        ("examples"      :> <<"#", "8", "F", "B", "C", "8", "F">>) @@
        ("point_closing" :> <<"#", "F", "4", "A", "4", "6", "0">>) @@
        ("default"       :> <<"#", "D", "2", "B", "4", "8", "C">>)]

TECH_GRADIENT_STYLE ==
    [name |-> "Tech Gradient",
     layout_template_name |-> "metro",
     logic_color_map |->
        ("point_opening" :> <<"#", "6", "6", "7", "E", "E", "A">>) @@
        ("reasons"       :> <<"#", "7", "6", "4", "B", "A", "2">>) @@
        ("examples"      :> <<"#", "F", "0", "9", "3", "F", "B">>) @@
        ("point_closing" :> <<"#", "4", "F", "A", "C", "F", "E">>) @@
        ("default"       :> <<"#", "7", "F", "7", "F", "D", "5">>)]

\* FLAT_INFOGRAPHIC_STYLE with a digit missing from its "default" colour.
FLAT_INFOGRAPHIC_STYLE_ShortDefault ==
    [name |-> "Flat Infographic",
     layout_template_name |-> "metro",
     logic_color_map |->
        ("point_opening" :> <<"#", "2", "5", "6", "3", "E", "B">>) @@
        ("reasons"       :> <<"#", "D", "C", "2", "6", "2", "6">>) @@
        ("examples"      :> <<"#", "0", "5", "9", "6", "6", "9">>) @@
        ("point_closing" :> <<"#", "7", "C", "3", "A", "E", "D">>) @@
        ("default"       :> <<"#", "1", "E", "2", "9", "3">>)]

FLAT_INFOGRAPHIC_STYLE ==
    [name |-> "Flat Infographic",
     layout_template_name |-> "metro",
     logic_color_map |->
        ("point_opening" :> <<"#", "2", "5", "6", "3", "E", "B">>) @@
        ("reasons"       :> <<"#", "D", "C", "2", "6", "2", "6">>) @@
        ("examples"      :> <<"#", "0", "5", "9", "6", "6", "9">>) @@
        ("point_closing" :> <<"#", "7", "C", "3", "A", "E", "D">>) @@
        ("default"       :> <<"#", "1", "E", "2", "9", "3", "B">>)]

\* _styles with the last profile left unregistered.
_styles_FlatUnregistered ==
    ("taipei_metro"     :> METRO_STYLE) @@
    ("modern_cafe"      :> MODERN_CAFE_STYLE) @@
    ("minimal_concrete" :> MINIMAL_CONCRETE_STYLE) @@
    ("warm_wood"        :> WARM_WOOD_STYLE) @@
    ("tech_gradient"    :> TECH_GRADIENT_STYLE)

\* StyleRegistry._styles: StyleType member -> StyleProfile.  StyleType is a
\* str enum, so a member and its string value are the same dictionary key.
_styles ==
    ("taipei_metro"     :> METRO_STYLE) @@
    ("modern_cafe"      :> MODERN_CAFE_STYLE) @@
    ("minimal_concrete" :> MINIMAL_CONCRETE_STYLE) @@
    ("warm_wood"        :> WARM_WOOD_STYLE) @@
    ("tech_gradient"    :> TECH_GRADIENT_STYLE) @@
    ("flat_infographic" :> FLAT_INFOGRAPHIC_STYLE)

\* Python dict.get(key, default).
DictGet(d, key, dflt) == IF key \in DOMAIN d THEN d[key] ELSE dflt

\* StyleRegistry.get falling back to the last registered profile.
StyleRegistry_get_WrongFallback(style_type) ==
    DictGet(_styles, style_type, FLAT_INFOGRAPHIC_STYLE)

\* StyleRegistry.get(style_type): cls._styles.get(style_type, METRO_STYLE).
StyleRegistry_get(style_type) == DictGet(_styles, style_type, METRO_STYLE)

(***************************************************************************)
(* src/src/exporter.py: colour conversion.                                 *)
(***************************************************************************)
\* The characters int(x, 16) reads as hexadecimal digits.  The order is the
\* order in which NumHexChars admits them to the conversion's inputs.
HexChars ==
    <<"E", "3", "0", "2", "C", "f", "9", "A", "1", "4", "5", "6", "7", "8",
      "B", "D", "F", "a", "b", "c", "d", "e">>

HexValue ==
    ("0" :> 0) @@ ("1" :> 1) @@ ("2" :> 2) @@ ("3" :> 3) @@ ("4" :> 4) @@
    ("5" :> 5) @@ ("6" :> 6) @@ ("7" :> 7) @@ ("8" :> 8) @@ ("9" :> 9) @@
    ("A" :> 10) @@ ("B" :> 11) @@ ("C" :> 12) @@ ("D" :> 13) @@
    ("E" :> 14) @@ ("F" :> 15) @@
    ("a" :> 10) @@ ("b" :> 11) @@ ("c" :> 12) @@ ("d" :> 13) @@
    ("e" :> 14) @@ ("f" :> 15)

\* int(x, 16) on a text of hexadecimal digits and '#': the value, or -1 where
\* Python raises ValueError (empty text, or a character that is no digit).
RECURSIVE HexNumber(_)
HexNumber(x) ==
    IF x = <<>> THEN 0
    ELSE 16 * HexNumber(SubSeq(x, 1, Len(x) - 1)) + HexValue[x[Len(x)]]

int16(x) ==
    IF x = <<>> \/ \E i \in 1..Len(x) : x[i] \notin DOMAIN HexValue THEN -1
    ELSE HexNumber(x)

\* An RGBColor object, or the exception raised instead of returning one.
RGBColor(r, g, b) == [exc |-> "none", rgb |-> <<r, g, b>>]

Raised(e) == [exc |-> e, rgb |-> <<>>]

\* _hex_to_rgb without the removal of '#'.
_hex_to_rgb_NoStrip(hex_color) ==
    LET h == hex_color
        c == [k \in 1..3 |-> int16(Slice(h, 2 * (k - 1), 2 * (k - 1) + 2))]
    IN  IF \E k \in 1..3 : c[k] = -1 THEN Raised("ValueError")
        ELSE RGBColor(c[1], c[2], c[3])

\* PptxExporter._hex_to_rgb
_hex_to_rgb(hex_color) ==
    LET h == lstrip(hex_color, "#")
        c == [k \in 1..3 |-> int16(Slice(h, 2 * (k - 1), 2 * (k - 1) + 2))]
    IN  IF \E k \in 1..3 : c[k] = -1 THEN Raised("ValueError")
        ELSE RGBColor(c[1], c[2], c[3])

(***************************************************************************)
(* State.                                                                  *)
(***************************************************************************)
VARIABLES
    slides,       \* export/render input: the ordered list of SlideContent
    style,        \* export/render input: the StyleProfile
    exported,     \* outcome of the last PptxExporter.export call
    html,         \* outcome of the last PresentationRenderer.render call
    hex_color,    \* an argument for PptxExporter._hex_to_rgb
    rgb_result,   \* what _hex_to_rgb returned (or raised) for hex_color
    badge_index,  \* a 1-based slide position
    badge_pptx,   \* the exporter's badge text for badge_index
    badge_html,   \* the renderer's badge text for badge_index
    session,      \* st.session_state.slides of the orchestrator
    looked_up,    \* the last StyleRegistry.get call: its key and its profile
    dot_total,    \* total_slides given to _draw_presentation_ui
    dot_left,     \* the left edges (EMU) of the progress dots it drew
    sdk_outcome,  \* what Gemini3Provider._call_sdk does for the request
    gen_result,   \* what Gemini3Provider.generate gave its caller
    bg_payload,      \* an argument for PptxExporter._set_background
    bg_result,    \* what _set_background put on an empty page for bg_payload
    batch_log,    \* the batch handler's attempts of this run, in order
    reported      \* the slide count of this run's success message (0: none)

vars ==
    <<slides, style, exported, html, hex_color, rgb_result, badge_index,
      badge_pptx, badge_html, session, looked_up, dot_total, dot_left,
      sdk_outcome, gen_result, bg_payload, bg_result, batch_log, reported>>

deck_vars == <<slides, style, exported, html>>

hex_vars == <<hex_color, rgb_result>>

badge_vars == <<badge_index, badge_pptx, badge_html>>

session_vars == <<session, looked_up>>

dots_vars == <<dot_total, dot_left>>

provider_vars == <<sdk_outcome, gen_result>>

strip_vars == <<bg_payload, bg_result>>

app_vars == <<batch_log, reported>>

(***************************************************************************)
(* SlideContent (src.models; fields as used by exporter.py, renderer.py    *)
(* and nano_banana_app.py:296-303).                                        *)
(***************************************************************************)
\* An optional string field: Python None, or a string of tokens.
None == [none |-> TRUE, s |-> <<>>]

Text(s) == [none |-> FALSE, s |-> s]

\* Truthy as a test against None only.
Truthy_IsNotNone(v) == ~v.none

\* Python truthiness of an optional string: None and "" are falsy.
Truthy(v) == ~v.none /\ v.s # <<>>

SlideContent(k, section, image) ==
    [slide_id |-> <<"s", "l", "i", "d", "e", "_">> \o str(k),
     framework_section |-> section,
     title |-> <<"T">> \o str(k),
     body_text |-> <<"B">> \o str(k),
     background_image_base64 |-> image]

(***************************************************************************)
(* src/src/exporter.py: page construction.                                 *)
(***************************************************************************)
NoColor == <<>>

White == <<255, 255, 255>>

\* One element of slide.shapes, with the properties the exporter sets.
Shape(kind, auto, fill, transparency, line, text, font) ==
    [kind |-> kind, shape_type |-> auto, fill |-> fill,
     transparency |-> transparency, line |-> line, text |-> text,
     font |-> font]

\* The payloads the exporter can decode and insert: base64.b64decode and
\* slide.shapes.add_picture both succeed on them.
DecodablePictures == {<<"PNG64">>}

\* Python "," in s.
HasComma(s) == \E i \in 1..Len(s) : s[i] = ","

\* Python s.split(",")[1] for s holding a comma: the text between the first
\* comma and the next one (or the end).
RECURSIVE UpToComma(_)
UpToComma(s) ==
    IF s = <<>> \/ Head(s) = "," THEN <<>>
    ELSE <<Head(s)>> \o UpToComma(Tail(s))

RECURSIVE AfterFirstComma(_)
AfterFirstComma(s) ==
    IF s = <<>> THEN <<>>
    ELSE IF Head(s) = "," THEN Tail(s)
    ELSE AfterFirstComma(Tail(s))

\* Python s.split(",")[0]: the text before the first comma.
SplitComma1_FirstField(s) == UpToComma(s)

SplitComma1(s) == UpToComma(AfterFirstComma(s))

\* _set_background inserting whatever the payload holds.
_set_background_NoDecodeCheck(shapes, b64_str) ==
    Append(shapes,
           Shape("picture", "PICTURE", NoColor, 0, NoColor,
                 IF HasComma(b64_str) THEN SplitComma1(b64_str) ELSE b64_str,
                 NoColor))

\* PptxExporter._set_background: the shapes of the page afterwards.  Any
\* exception of the decoding or of add_picture is swallowed (except: pass).
_set_background(shapes, b64_str) ==
    LET stripped == IF HasComma(b64_str) THEN SplitComma1(b64_str)
                    ELSE b64_str
    IN  IF stripped \in DecodablePictures
        THEN Append(shapes,
                    Shape("picture", "PICTURE", NoColor, 0, NoColor,
                          stripped, NoColor))
        ELSE shapes

\* The progress dots drawn by _draw_presentation_ui (range(1, total + 1)).
ProgressDots(index, rgb_color, total_slides) ==
    [i \in 1..total_slides |->
        IF i = index
        THEN Shape("dot", "OVAL", White, 0, rgb_color, <<>>, NoColor)
        ELSE Shape("dot", "OVAL", <<200, 200, 200>>, 50, NoColor, <<>>,
                   NoColor)]

\* BadgeText numbering from enumerate's 0-based idx.
BadgeText_ZeroBased(index) == zfill(str(index - 1), 2)

\* The badge text of _draw_presentation_ui: str(index).zfill(2).
BadgeText(index) == zfill(str(index), 2)

\* PptxExporter._draw_presentation_ui: line, badge, progress dots.
_draw_presentation_ui(shapes, index, rgb_color, total_slides) ==
    shapes
    \o <<Shape("line", "RECTANGLE", rgb_color, 0, NoColor, <<>>, NoColor)>>
    \o <<Shape("circle", "OVAL", White, 0, rgb_color, BadgeText(index),
               rgb_color)>>
    \o ProgressDots(index, rgb_color, total_slides)

\* _draw_text_content adding the accent bar before the title text box.
_draw_text_content_BarBeforeTitle(shapes, content, rgb_color) ==
    shapes
    \o <<Shape("title_bg", "ROUNDED_RECTANGLE", White, 4, NoColor, <<>>,
               NoColor)>>
    \o <<Shape("body_bg", "ROUNDED_RECTANGLE", White, 6, NoColor, <<>>,
               NoColor)>>
    \o <<Shape("accent_bar", "RECTANGLE", rgb_color, 0, NoColor, <<>>,
               NoColor)>>
    \o <<Shape("title_box", "TEXTBOX", NoColor, 0, NoColor, content.title,
               <<26, 26, 26>>)>>
    \o <<Shape("body_box", "TEXTBOX", NoColor, 0, NoColor,
               content.body_text, <<42, 42, 42>>)>>

\* PptxExporter._draw_text_content, in the order of its add_shape and
\* add_textbox calls.
_draw_text_content(shapes, content, rgb_color) ==
    shapes
    \o <<Shape("title_bg", "ROUNDED_RECTANGLE", White, 4, NoColor, <<>>,
               NoColor)>>
    \o <<Shape("body_bg", "ROUNDED_RECTANGLE", White, 6, NoColor, <<>>,
               NoColor)>>
    \o <<Shape("title_box", "TEXTBOX", NoColor, 0, NoColor, content.title,
               <<26, 26, 26>>)>>
    \o <<Shape("accent_bar", "RECTANGLE", rgb_color, 0, NoColor, <<>>,
               NoColor)>>
    \o <<Shape("body_box", "TEXTBOX", NoColor, 0, NoColor,
               content.body_text, <<42, 42, 42>>)>>

\* ExportFallbackColor as a colour name instead of a hexadecimal code.
ExportFallbackColor_Name == <<"g", "r", "a", "y">>

\* The fallback of export's colour lookup: the literal "#333333".
ExportFallbackColor == <<"#", "3", "3", "3", "3", "3", "3">>

\* ExportHexColor looking up "default" whatever the section.
ExportHexColor_DefaultOnly(st, section) ==
    DictGet(st.logic_color_map, "default", ExportFallbackColor)

\* export, step 3.3: style.logic_color_map.get(framework_section, "#333333").
ExportHexColor(st, section) ==
    DictGet(st.logic_color_map, section, ExportFallbackColor)

\* ExportPage drawing every page's text panel with the first slide's colour.
ExportPage_BarOfFirstSlide(deck, st, i) ==
    LET content == deck[i + 1]
        bg == IF Truthy(content.background_image_base64)
              THEN _set_background(<<>>, content.background_image_base64.s)
              ELSE <<>>
        rgb_color == _hex_to_rgb(ExportHexColor(st, content.framework_section))
        first_color == _hex_to_rgb(ExportHexColor(st, deck[1].framework_section))
    IN  IF rgb_color.exc # "none" THEN [exc |-> rgb_color.exc, shapes |-> <<>>]
        ELSE [exc |-> "none",
              shapes |->
                _draw_text_content(
                    _draw_presentation_ui(bg, i + 1, rgb_color.rgb,
                                          Len(deck)),
                    content, first_color.rgb)]

\* One pass of export's loop body for slide number i (0-based) of deck: the
\* page's shapes, or the exception with which _hex_to_rgb leaves the loop.
ExportPage(deck, st, i) ==
    LET content == deck[i + 1]
        bg == IF Truthy(content.background_image_base64)
              THEN _set_background(<<>>, content.background_image_base64.s)
              ELSE <<>>
        rgb_color == _hex_to_rgb(ExportHexColor(st, content.framework_section))
    IN  IF rgb_color.exc # "none" THEN [exc |-> rgb_color.exc, shapes |-> <<>>]
        ELSE [exc |-> "none",
              shapes |->
                _draw_text_content(
                    _draw_presentation_ui(bg, i + 1, rgb_color.rgb,
                                          Len(deck)),
                    content, rgb_color.rgb)]

\* export's loop "for idx, content in enumerate(slides)" from index i on,
\* pages being prs.slides so far; ends with prs.save, or with the exception
\* that left the loop (then nothing is saved).
RECURSIVE ExportLoop(_, _, _, _)
ExportLoop(deck, st, i, pages) ==
    IF i >= Len(deck) THEN [status |-> "saved", exc |-> "none", pages |-> pages]
    ELSE LET page == ExportPage(deck, st, i)
         IN  IF page.exc # "none"
             THEN [status |-> "raised", exc |-> page.exc, pages |-> <<>>]
             ELSE ExportLoop(deck, st, i + 1, Append(pages, page.shapes))

\* PptxExporter.export(slides, output_path, style)
export(deck, st) == ExportLoop(deck, st, 0, <<>>)

NotExported == [status |-> "none", exc |-> "none", pages |-> <<>>]

\* The exceptions of export's first and last statements: Presentation()
\* cannot build the document, prs.save(output_path) cannot write the file.
CannotCreate == "PackageNotFoundError"

CannotSave == "OSError"

\* PptxExporter.export where Presentation() succeeds only if can_create and
\* prs.save(output_path) only if can_save.
exportIn(deck, st, can_create, can_save) ==
    IF ~can_create
    THEN [status |-> "raised", exc |-> CannotCreate, pages |-> <<>>]
    ELSE LET built == ExportLoop(deck, st, 0, <<>>)
         IN  IF built.status = "raised" THEN built
             ELSE IF ~can_save
             THEN [status |-> "raised", exc |-> CannotSave, pages |-> <<>>]
             ELSE built

(***************************************************************************)
(* src/src/renderer.py: the Jinja2 template of _load_html_template.        *)
(***************************************************************************)
\* Format02d keeping a field of exactly 2 digits.
Format02d_TwoColumns(n) ==
    <<DecimalDigits[((n \div 10) % 10) + 1], DecimalDigits[(n % 10) + 1]>>

\* Python "%02d" % n for n >= 0: the decimal digits of n in a field at least
\* 2 wide, padded on the left with zeros.
Format02d(n) ==
    LET digits == str(n)
        pad == IF Len(digits) < 2 THEN 2 - Len(digits) ELSE 0
    IN  [p \in 1..pad |-> "0"] \o digits

\* The fallback of the template's colour lookup: the literal '#333'.
RenderFallbackColor == <<"#", "3", "3", "3">>

\* RenderColor with the fallback taken from the map's "default" entry.
RenderColor_DefaultEntry(st, section) ==
    DictGet(st.logic_color_map, section,
            DictGet(st.logic_color_map, "default", RenderFallbackColor))

\* {% set color = style.logic_color_map.get(slide.framework_section, '#333') %}
RenderColor(st, section) ==
    DictGet(st.logic_color_map, section, RenderFallbackColor)

\* The inner loop {% for i in range(1, slides|length + 1) %}.  Inside it,
\* Jinja2's loop variable is the innermost loop's, so loop.index is the
\* inner loop's own 1-based pass number, not the slide's position.
RenderDots(color, total) ==
    [pass \in 1..total |->
        LET i == pass              \* range(1, total + 1)[pass - 1]
            loop_index == pass     \* loop.index of the innermost loop
        IN  [active |-> (i = loop_index),
             border |-> IF i = loop_index THEN color ELSE NoColor]]

\* The text the template puts before the payload: data:image/png;base64,
DataUriPrefix == <<"data:image/png;base64", ",">>

\* RenderBackgroundUrl dropping what precedes a comma, as the exporter does.
RenderBackgroundUrl_Stripped(image) ==
    IF Truthy(image)
    THEN DataUriPrefix
         \o (IF HasComma(image.s) THEN SplitComma1(image.s) ELSE image.s)
    ELSE <<>>

\* The url(...) of the slide's background-image declaration.
RenderBackgroundUrl(image) ==
    IF Truthy(image) THEN DataUriPrefix \o image.s
    ELSE <<>>

\* A rule of the style sheet, by its selector: an element name (or "") and
\* the class names the selector requires.
CssRule(element, classes) == [element |-> element, classes |-> classes]

\* self.presentation_css (_load_presentation_css): the rules of the sheet.
presentation_css ==
    {CssRule("body", {}),
     CssRule("", {"container"}),
     CssRule("", {"slide"}),
     CssRule("", {"presentation-line"}),
     CssRule("", {"station-badge"}),
     CssRule("", {"progress-dots"}),
     CssRule("", {"progress-dot"}),
     CssRule("", {"progress-dot", "active"}),
     CssRule("", {"text-content"}),
     CssRule("h1", {}),
     CssRule("p", {})}

\* The class attributes of the elements of one <div class="slide"> unit:
\* the unit itself, the accent line, the badge, the row of dots, a dot, and
\* the text panel.
SlideMarkupClasses ==
    [slide |-> "slide",
     line |-> "metro-line",
     badge |-> "station-badge",
     dots |-> "progress-dots",
     dot |-> "progress-dot",
     text |-> "text-content"]

\* One pass of {% for slide in slides %}; loop_index is its loop.index.
RenderSlide(deck, st, loop_index) ==
    LET slide == deck[loop_index]
        color == RenderColor(st, slide.framework_section)
    IN  [background_url |-> RenderBackgroundUrl(slide.background_image_base64),
         metro_line |-> color,
         badge_border |-> color,
         badge_color |-> color,
         badge |-> Format02d(loop_index),
         dots |-> RenderDots(color, Len(deck)),
         title_border |-> color,
         title |-> slide.title,
         body |-> slide.body_text,
         classes |-> SlideMarkupClasses]

\* The document of the template for a non-empty deck; for an empty one the
\* exception of reading its first slide.
render_NeedsFirstSlide(deck, st) ==
    IF deck = <<>>
    THEN [status |-> "raised", doctype |-> "", charset |-> "", css |-> {},
          container |-> "", units |-> <<>>]
    ELSE [status |-> "rendered", doctype |-> "html", charset |-> "UTF-8",
          css |-> presentation_css, container |-> "container",
          units |-> [k \in 1..Len(deck) |-> RenderSlide(deck, st, k)]]

\* PresentationRenderer.render(slides, style): the document of the template.
\*   doctype    <!DOCTYPE html>
\*   charset    <head><meta charset="UTF-8">
\*   css        {{ css }} in <head>: the rules of the renderer's <style> sheet
\*   container  <body><div class="container">
\*   units      the <div class="slide"> elements of the container, one per
\*              pass of {% for slide in slides %}
render(deck, st) ==
    [status |-> "rendered", doctype |-> "html", charset |-> "UTF-8",
     css |-> presentation_css, container |-> "container",
     units |-> [k \in 1..Len(deck) |-> RenderSlide(deck, st, k)]]

NotRendered ==
    [status |-> "none", doctype |-> "", charset |-> "", css |-> {},
     container |-> "", units |-> <<>>]

\* A CSS hexadecimal colour as the RGB triple it denotes: '#' and six digits
\* give two digits per channel, '#' and three digits give each digit twice.
CssColor(c) ==
    LET h == Tail(c)
    IN  IF Len(h) = 3
        THEN [k \in 1..3 |-> int16(<<h[k], h[k]>>)]
        ELSE [k \in 1..3 |-> int16(<<h[2 * k - 1], h[2 * k]>>)]

(***************************************************************************)
(* Exporter and renderer on one (slides, style) input.                     *)
(***************************************************************************)
\* Section tags the decks are drawn from: three of the section keys the
\* catalog maps use, "default", and two tags no catalog map has.
SectionTags ==
    {"point_opening", "examples", "point_closing", "default", "opening",
     "closing"}

\* The (section tag, background payload) pairs the decks are drawn from:
\* every tag without an image, and one slide kind that carries an image.
SlideKinds ==
    {<<t, None>> : t \in SectionTags} \cup {<<"default", Text(<<"PNG64">>)>>}

Decks ==
    UNION {
        {[k \in 1..n |-> SlideContent(k, f[k][1], f[k][2])] :
            f \in [1..n -> SlideKinds]} :
        n \in 0..MaxSlides}

IdleHex == hex_color = <<>> /\ rgb_result = Raised("not called")

IdleBadge == badge_index = 0 /\ badge_pptx = <<>> /\ badge_html = <<>>

NotLookedUp == [called |-> FALSE, style_type |-> "", profile |-> METRO_STYLE]

IdleSession == session = <<>> /\ looked_up = NotLookedUp

IdleDots == dot_total = 0 /\ dot_left = <<>>

NotCalledSdk == [kind |-> "none", message |-> <<>>, parts |-> <<>>]

NotGenerated ==
    [called |-> FALSE, raised |-> FALSE, success |-> FALSE,
     image_base64 |-> None, text_content |-> None, error |-> None]

IdleProvider == sdk_outcome = NotCalledSdk /\ gen_result = NotGenerated

NotSetBackground == [called |-> FALSE, shapes |-> <<>>]

IdleStrip == bg_payload = <<>> /\ bg_result = NotSetBackground

IdleApp == batch_log = <<>> /\ reported = 0

Init ==
    /\ slides \in Decks
    /\ style \in {StyleRegistry_get(t) : t \in DOMAIN _styles}
    /\ exported = NotExported
    /\ html = NotRendered
    /\ IdleHex
    /\ IdleBadge
    /\ IdleSession
    /\ IdleDots
    /\ IdleProvider
    /\ IdleStrip
    /\ IdleApp

\* A call of PptxExporter().export(slides, path, style).
Export ==
    /\ exported' = export(slides, style)
    /\ UNCHANGED <<slides, style, html, hex_vars, badge_vars, session_vars,
                   dots_vars, provider_vars,
                   strip_vars, app_vars>>

\* A call of PresentationRenderer().render(slides, style).
Render ==
    /\ html' = render(slides, style)
    /\ UNCHANGED <<slides, style, exported, hex_vars, badge_vars,
                   session_vars, dots_vars, provider_vars,
                   strip_vars, app_vars>>

Next == Export \/ Render

Spec == Init /\ [][Next]_vars

IdleDeck ==
    /\ slides = <<>>
    /\ style = METRO_STYLE
    /\ exported = NotExported
    /\ html = NotRendered

(***************************************************************************)
(* _hex_to_rgb on its own (specification SpecHex).                         *)
(***************************************************************************)
\* Six hexadecimal digits from the first NumHexChars characters of
\* HexChars, with or without a leading '#'.
HexInputs ==
    {prefix \o digits :
        prefix \in {<<>>, <<"#">>},
        digits \in [1..6 -> {HexChars[i] : i \in 1..NumHexChars}]}

InitHex ==
    /\ IdleDeck
    /\ hex_color \in HexInputs
    /\ rgb_result = Raised("not called")
    /\ IdleBadge
    /\ IdleSession
    /\ IdleDots
    /\ IdleProvider
    /\ IdleStrip
    /\ IdleApp

\* A call of PptxExporter()._hex_to_rgb(hex_color).
HexToRgb ==
    /\ rgb_result' = _hex_to_rgb(hex_color)
    /\ UNCHANGED <<deck_vars, hex_color, badge_vars, session_vars, dots_vars,
                   provider_vars,
                   strip_vars, app_vars>>

NextHex == HexToRgb

SpecHex == InitHex /\ [][NextHex]_vars

(***************************************************************************)
(* The two badge formats on one slide position (specification SpecBadge).  *)
(***************************************************************************)
InitBadge ==
    /\ IdleDeck
    /\ IdleHex
    /\ badge_index \in 1..MaxBadgeIndex
    /\ badge_pptx = <<>>
    /\ badge_html = <<>>
    /\ IdleSession
    /\ IdleDots
    /\ IdleProvider
    /\ IdleStrip
    /\ IdleApp

\* exporter.py:298, p.text = str(index).zfill(2)
ExporterBadge ==
    /\ badge_pptx' = BadgeText(badge_index)
    /\ UNCHANGED <<deck_vars, hex_vars, badge_index, badge_html, session_vars,
                   dots_vars, provider_vars,
                   strip_vars, app_vars>>

\* renderer.py:269, {{ "%02d" | format(loop.index) }}
RendererBadge ==
    /\ badge_html' = Format02d(badge_index)
    /\ UNCHANGED <<deck_vars, hex_vars, badge_index, badge_pptx, session_vars,
                   dots_vars, provider_vars,
                   strip_vars, app_vars>>

NextBadge == ExporterBadge \/ RendererBadge

SpecBadge == InitBadge /\ [][NextBadge]_vars

(***************************************************************************)
(* src/nano_banana_app.py: the session's slides and their style keys       *)
(* (specification SpecSession).                                            *)
(***************************************************************************)
\* old_style_map with "warm" sent to the default theme.
old_style_map_WarmToMetro ==
    ("professional" :> "taipei_metro") @@
    ("creative"     :> "modern_cafe") @@
    ("minimal"      :> "minimal_concrete") @@
    ("tech"         :> "tech_gradient") @@
    ("warm"         :> "taipei_metro")

\* main, lines 573-579: legacy style key -> current StyleType.
old_style_map ==
    ("professional" :> "taipei_metro") @@
    ("creative"     :> "modern_cafe") @@
    ("minimal"      :> "minimal_concrete") @@
    ("tech"         :> "tech_gradient") @@
    ("warm"         :> "warm_wood")

\* Style keys a session slide may hold and StyleRegistry.get may be given:
\* the StyleType values, the legacy keys, and a key that is neither.
StyleKeys == StyleType \cup DOMAIN old_style_map \cup {"unknown_style"}

\* A slide dict of st.session_state.slides (main, lines 505-511) holding
\* the style key st.
SessionSlide(n, st) ==
    [title |-> <<"S">> \o str(n),
     content |-> <<>>,
     style |-> st,
     image |-> None,
     generated |-> FALSE]

Sessions ==
    UNION {
        {[k \in 1..n |-> SessionSlide(k, f[k])] : f \in [1..n -> StyleKeys]} :
        n \in 0..MaxSessionSlides}

InitSession ==
    /\ IdleDeck
    /\ IdleHex
    /\ IdleBadge
    /\ session \in Sessions
    /\ looked_up = NotLookedUp
    /\ IdleDots
    /\ IdleProvider
    /\ IdleStrip
    /\ IdleApp

\* The remap without its table: every unrecognised key becomes the default.
RemappedStyle_NoTable(st) ==
    IF st \notin StyleType THEN "taipei_metro" ELSE st

\* main, lines 572-580: the remap of slide i's style key.  Every key here
\* is a str (StyleType is a str enum).
RemappedStyle(st) ==
    IF st \notin StyleType THEN DictGet(old_style_map, st, "taipei_metro")
    ELSE st

RemapStyle(i) ==
    /\ session' = [session EXCEPT ![i].style = RemappedStyle(@)]
    /\ UNCHANGED <<deck_vars, hex_vars, badge_vars, looked_up, dots_vars,
                   provider_vars,
                   strip_vars, app_vars>>

\* A call of StyleRegistry.get(key).
StyleRegistryGet(key) ==
    /\ looked_up' =
        [called |-> TRUE, style_type |-> key,
         profile |-> StyleRegistry_get(key)]
    /\ UNCHANGED <<deck_vars, hex_vars, badge_vars, session, dots_vars,
                   provider_vars,
                   strip_vars, app_vars>>

NextSession ==
    \/ \E i \in 1..Len(session) : RemapStyle(i)
    \/ \E key \in StyleKeys : StyleRegistryGet(key)

SpecSession == InitSession /\ [][NextSession]_vars

(***************************************************************************)
(* Background payloads through exporter and renderer (specification        *)
(* SpecImage).                                                             *)
(***************************************************************************)
\* background_image_base64 values: absent (None, ""), a picture the exporter
\* can decode and insert, a text it cannot, and both behind a data-URI
\* prefix.
ImagePayloads ==
    {None, Text(<<>>), Text(<<"PNG64">>), Text(<<"BAD">>),
     Text(DataUriPrefix \o <<"PNG64">>), Text(DataUriPrefix \o <<"BAD">>)}

\* (section tag, payload) pairs: a tag of the catalog maps with every
\* payload, and a tag no map has without image and with an undecodable one.
ImageSlideKinds ==
    {<<"examples", p>> : p \in ImagePayloads}
    \cup {<<"opening", None>>, <<"opening", Text(<<"BAD">>)>>}

ImageDecks ==
    UNION {
        {[k \in 1..n |-> SlideContent(k, f[k][1], f[k][2])] :
            f \in [1..n -> ImageSlideKinds]} :
        n \in 0..MaxImageSlides}

InitImage ==
    /\ slides \in ImageDecks
    /\ style \in {StyleRegistry_get(t) : t \in DOMAIN _styles}
    /\ exported = NotExported
    /\ html = NotRendered
    /\ IdleHex
    /\ IdleBadge
    /\ IdleSession
    /\ IdleDots
    /\ IdleProvider
    /\ IdleStrip
    /\ IdleApp

\* ExportIn writing each payload back to its slide without what precedes
\* the comma.
ExportIn_StripsInPlace(can_create, can_save) ==
    /\ exported' = exportIn(slides, style, can_create, can_save)
    /\ slides' =
        [k \in 1..Len(slides) |->
            LET image == slides[k].background_image_base64
            IN  IF Truthy(image) /\ HasComma(image.s)
                THEN [slides[k] EXCEPT
                         !.background_image_base64 = Text(SplitComma1(image.s))]
                ELSE slides[k]]
    /\ UNCHANGED <<style, html, hex_vars, badge_vars, session_vars,
                   dots_vars, provider_vars, strip_vars, app_vars>>

\* A call of PptxExporter().export(slides, path, style) in an environment
\* where the document can be built (can_create) and path written (can_save).
ExportIn(can_create, can_save) ==
    /\ exported' = exportIn(slides, style, can_create, can_save)
    /\ UNCHANGED <<slides, style, html, hex_vars, badge_vars, session_vars,
                   dots_vars, provider_vars,
                   strip_vars, app_vars>>

NextImage ==
    \/ \E can_create, can_save \in BOOLEAN : ExportIn(can_create, can_save)
    \/ Render

SpecImage == InitImage /\ [][NextImage]_vars

(***************************************************************************)
(* src/src/exporter.py: the geometry of the progress dots (specification   *)
(* SpecDots).  Lengths are python-pptx EMU integers.                       *)
(***************************************************************************)
EmusPerInch == 914400

\* pptx.util.Inches(x) = int(x * 914400), for x given in thousandths of an
\* inch: thousandths * 914400 / 1000, computed as thousandths * 9144 / 10
\* to stay within 32-bit integers.
Inches(thousandths) == (thousandths * (EmusPerInch \div 100)) \div 10

\* self.width = Inches(13.333)
SlideWidth == Inches(13333)

\* dot_size = Inches(0.15)
dot_size == Inches(150)

\* dot_gap = Inches(0.12)
dot_gap == Inches(120)

\* start_x = self.width - Inches(0.5) - (total_slides * (dot_size + dot_gap))
start_x(total_slides) ==
    SlideWidth - Inches(500) - (total_slides * (dot_size + dot_gap))

\* dot_x = start_x + (i - 1) * (dot_size + dot_gap)
dot_x(total_slides, i) ==
    start_x(total_slides) + (i - 1) * (dot_size + dot_gap)

InitDots ==
    /\ IdleDeck
    /\ IdleHex
    /\ IdleBadge
    /\ IdleSession
    /\ dot_total \in 1..MaxDotTotal
    /\ dot_left = <<>>
    /\ IdleProvider
    /\ IdleStrip
    /\ IdleApp

\* Part C of _draw_presentation_ui for total_slides = dot_total: the left
\* edge of the dot of every i in range(1, total_slides + 1).
DrawProgressDots ==
    /\ dot_left' = [i \in 1..dot_total |-> dot_x(dot_total, i)]
    /\ UNCHANGED <<deck_vars, hex_vars, badge_vars, session_vars, dot_total,
                   provider_vars,
                   strip_vars, app_vars>>

NextDots == DrawProgressDots

SpecDots == InitDots /\ [][NextDots]_vars

(***************************************************************************)
(* src/src/providers.py: Gemini3Provider (specification SpecProvider).     *)
(***************************************************************************)
\* The parts of a response, by what _parse_response's loop does with them:
\*   text             part.text is not None
\*   image            part.as_image() is an image that is saved and read
\*                    back as a non-empty file
\*   image_empty      the same, the file read back being empty
\*   image_unsavable  part.as_image() is an image whose conversion (temporary
\*                    file, image.save, open, unlink) raises
\*   other            part.text is None and part.as_image() is None
PartKinds == {"text", "image", "image_empty", "image_unsavable", "other"}

\* What _call_sdk does: it raises an exception e, str(e) being message
\* (possibly empty); or it returns a response whose parts attribute is None;
\* or a response with a list of parts.
SdkOutcomes ==
    {[kind |-> "raises", message |-> m, parts |-> <<>>] :
        m \in {<<>>, <<"quota exceeded">>}}
    \cup {[kind |-> "no_parts", message |-> <<>>, parts |-> <<>>]}
    \cup UNION {
        {[kind |-> "response", message |-> <<>>, parts |-> ps] :
            ps \in [1..n -> PartKinds]} :
        n \in 0..MaxParts}

\* ImageGenResult(success=..., image_base64=..., text_content=..., error=...)
\* as generate's caller receives it; a field that is not given is None.
ImageGenResult(success, image_base64, text_content, error) ==
    [called |-> TRUE, raised |-> FALSE, success |-> success,
     image_base64 |-> image_base64, text_content |-> text_content,
     error |-> error]

\* The loop "for part in response.parts" from part i on: the values of
\* text_content and image_b64 after it, or the exception that left it.
RECURSIVE ParseParts(_, _, _, _)
ParseParts(parts, i, text_content, image_b64) ==
    IF i > Len(parts)
    THEN [exc |-> <<>>, text_content |-> text_content, image_b64 |-> image_b64]
    ELSE IF parts[i] = "text"
    THEN ParseParts(parts, i + 1, Text(<<"caption">>), image_b64)
    ELSE IF parts[i] = "image"
    THEN ParseParts(parts, i + 1, text_content, Text(<<"PNG64">>))
    ELSE IF parts[i] = "image_empty"
    THEN ParseParts(parts, i + 1, text_content, Text(<<>>))
    ELSE IF parts[i] = "image_unsavable"
    THEN [exc |-> <<"cannot save image">>, text_content |-> text_content,
          image_b64 |-> image_b64]
    ELSE ParseParts(parts, i + 1, text_content, image_b64)

\* Gemini3Provider._parse_response
_parse_response(response) ==
    LET looped ==
            IF response.kind = "no_parts"
            THEN [exc |-> <<"'NoneType' object is not iterable">>,
                  text_content |-> None, image_b64 |-> None]
            ELSE ParseParts(response.parts, 1, None, None)
    IN  IF looped.exc # <<>>
        THEN ImageGenResult(FALSE, None, None,
                            Text(<<"parse failed: ">> \o looped.exc))
        ELSE IF Truthy(looped.image_b64)
        THEN ImageGenResult(TRUE, looped.image_b64, looped.text_content, None)
        ELSE ImageGenResult(FALSE, None, looped.text_content,
                            Text(<<"no image generated">>))

\* Gemini3Provider.generate, outcome being what _call_sdk does.
generate(outcome) ==
    IF outcome.kind = "raises"
    THEN ImageGenResult(FALSE, None, None, Text(outcome.message))
    ELSE _parse_response(outcome)

InitProvider ==
    /\ IdleDeck
    /\ IdleHex
    /\ IdleBadge
    /\ IdleSession
    /\ IdleDots
    /\ sdk_outcome \in SdkOutcomes
    /\ gen_result = NotGenerated
    /\ IdleStrip
    /\ IdleApp

\* A call "await provider.generate(request)".
Generate ==
    /\ gen_result' = generate(sdk_outcome)
    /\ UNCHANGED <<deck_vars, hex_vars, badge_vars, session_vars, dots_vars,
                   sdk_outcome, strip_vars, app_vars>>

NextProvider == Generate

SpecProvider == InitProvider /\ [][NextProvider]_vars

(***************************************************************************)
(* src/src/exporter.py: _set_background on its own (specification          *)
(* SpecStrip).                                                             *)
(***************************************************************************)
\* The tokens background payloads are built from: the head of a data URI,
\* the comma, a text that decodes to a picture and a text that does not.
PayloadTokens == {"data:image/png;base64", ",", "PNG64", "BAD"}

\* _set_background is called with a truthy payload only (export, lines 110-111).
Payloads ==
    UNION {[1..n -> PayloadTokens] : n \in 1..MaxPayloadLen}

InitStrip ==
    /\ IdleDeck
    /\ IdleHex
    /\ IdleBadge
    /\ IdleSession
    /\ IdleDots
    /\ IdleProvider
    /\ bg_payload \in Payloads
    /\ bg_result = NotSetBackground
    /\ IdleApp

\* A call of self._set_background(slide, b64_str) on a page without shapes.
SetBackground ==
    /\ bg_result' =
        [called |-> TRUE, shapes |-> _set_background(<<>>, bg_payload)]
    /\ UNCHANGED <<deck_vars, hex_vars, badge_vars, session_vars, dots_vars,
                   provider_vars, bg_payload, app_vars>>

NextStrip == SetBackground

SpecStrip == InitStrip /\ [][NextStrip]_vars

(***************************************************************************)
(* src/nano_banana_app.py: create_pptx_from_slides and create_html_preview  *)
(* on a list of slide dicts (specification SpecDeck).  A dict is a function *)
(* of its keys; a dict without the key "style" has no such field.           *)
(***************************************************************************)
\* Python truthiness of a str.
StrTruthy(text) == text # ""

\* create_pptx_from_slides, lines 296-303: the SlideContent of slide_data,
\* with "default" as the section of every slide.
pptx_slide_content_SectionDefault(idx, slide_data) ==
    [slide_id |-> <<"s", "l", "i", "d", "e", "_">> \o str(idx + 1),
     framework_section |-> "default",
     title |-> DictGet(slide_data, "title", <<"slide ">> \o str(idx + 1)),
     body_text |-> DictGet(slide_data, "content", <<>>),
     background_image_base64 |-> DictGet(slide_data, "image", None)]

\* create_pptx_from_slides, lines 296-303: SlideContent(slide_id=...,
\* framework_section=..., title=..., body_text=...,
\* background_image_base64=..., rationale=None).
pptx_slide_content(idx, slide_data) ==
    [slide_id |-> <<"s", "l", "i", "d", "e", "_">> \o str(idx + 1),
     framework_section |-> DictGet(slide_data, "style", "default"),
     title |-> DictGet(slide_data, "title", <<"slide ">> \o str(idx + 1)),
     body_text |-> DictGet(slide_data, "content", <<>>),
     background_image_base64 |-> DictGet(slide_data, "image", None)]

\* The loop of create_pptx_from_slides numbering slide_id by the position
\* in slide_contents.
RECURSIVE pptx_slide_contents_Renumbered(_, _)
pptx_slide_contents_Renumbered(deck, idx) ==
    LET RECURSIVE From(_, _)
        From(i, taken) ==
            IF i >= Len(deck) THEN <<>>
            ELSE LET slide_data == deck[i + 1]
                 IN  IF \/ ~DictGet(slide_data, "generated", FALSE)
                        \/ ~Truthy(DictGet(slide_data, "image", None))
                     THEN From(i + 1, taken)
                     ELSE <<pptx_slide_content(taken, slide_data)>>
                          \o From(i + 1, taken + 1)
    IN  From(idx, 0)

\* create_pptx_from_slides, lines 291-304: the loop "for idx, slide_data in
\* enumerate(slides)" from idx on; the slide_contents it appends.
RECURSIVE pptx_slide_contents(_, _)
pptx_slide_contents(deck, idx) ==
    IF idx >= Len(deck) THEN <<>>
    ELSE LET slide_data == deck[idx + 1]
         IN  IF \/ ~DictGet(slide_data, "generated", FALSE)
                \/ ~Truthy(DictGet(slide_data, "image", None))
             THEN pptx_slide_contents(deck, idx + 1)
             ELSE <<pptx_slide_content(idx, slide_data)>>
                  \o pptx_slide_contents(deck, idx + 1)

\* create_pptx_from_slides, lines 306-311: style_type.  StyleType(value)
\* raises ValueError for a value that is no member's value.
pptx_style_type(deck) ==
    IF deck # <<>> /\ StrTruthy(DictGet(deck[1], "style", ""))
    THEN IF deck[1].style \in StyleType THEN deck[1].style
         ELSE "taipei_metro"
    ELSE "taipei_metro"

\* create_pptx_from_slides(slides) where the temporary file can be written
\* only if can_save: the deck and the profile given to export, and what
\* export did.
create_pptx_from_slides(deck, can_save) ==
    LET slide_contents == pptx_slide_contents(deck, 0)
        style_profile == StyleRegistry_get(pptx_style_type(deck))
    IN  [slide_contents |-> slide_contents,
         style_profile |-> style_profile,
         out |-> exportIn(slide_contents, style_profile, TRUE, can_save)]

\* create_html_preview, lines 344-351.
html_slide_content(idx, slide_data) ==
    [slide_id |-> <<"s", "l", "i", "d", "e", "_">> \o str(idx + 1),
     framework_section |-> DictGet(slide_data, "style", "default"),
     title |-> DictGet(slide_data, "title", <<"slide ">> \o str(idx + 1)),
     body_text |-> DictGet(slide_data, "content", <<>>),
     background_image_base64 |-> DictGet(slide_data, "image", None)]

\* create_html_preview, lines 339-352: the loop from idx on.
RECURSIVE html_slide_contents(_, _)
html_slide_contents(deck, idx) ==
    IF idx >= Len(deck) THEN <<>>
    ELSE LET slide_data == deck[idx + 1]
         IN  IF \/ ~DictGet(slide_data, "generated", FALSE)
                \/ ~Truthy(DictGet(slide_data, "image", None))
             THEN html_slide_contents(deck, idx + 1)
             ELSE <<html_slide_content(idx, slide_data)>>
                  \o html_slide_contents(deck, idx + 1)

\* html_style_type taking the style of the first slide that is included.
html_style_type_FirstIncluded(deck) ==
    LET included == html_slide_contents(deck, 0)
    IN  IF included # <<>> /\ included[1].framework_section \in StyleType
        THEN included[1].framework_section
        ELSE "taipei_metro"

\* create_html_preview, lines 354-359: style_type.
html_style_type(deck) ==
    IF deck # <<>> /\ StrTruthy(DictGet(deck[1], "style", ""))
    THEN IF deck[1].style \in StyleType THEN deck[1].style
         ELSE "taipei_metro"
    ELSE "taipei_metro"

\* create_html_preview(slides): the deck and the profile given to render,
\* and the document.
create_html_preview(deck) ==
    LET slide_contents == html_slide_contents(deck, 0)
        style_profile == StyleRegistry_get(html_style_type(deck))
    IN  [slide_contents |-> slide_contents,
         style_profile |-> style_profile,
         out |-> render(slide_contents, style_profile)]

\* The style values of the slide dicts: two current styles, StyleType.DEFAULT,
\* a legacy key, and "" for a dict that has no "style" key at all.
DeckStyleKeys == {"taipei_metro", "modern_cafe", "default", "warm", ""}

\* The (generated, image) pairs of the slide dicts: not generated, generated
\* with its picture, and flagged generated without a picture.
DeckImageKinds ==
    {<<FALSE, None>>, <<TRUE, Text(<<"PNG64">>)>>, <<TRUE, None>>}

\* A slide dict; st = "" gives the dict without the key "style".
SlideDict(n, st, generated, image) ==
    IF st = ""
    THEN [title |-> <<"S">> \o str(n), content |-> <<"c">>,
          image |-> image, generated |-> generated]
    ELSE [title |-> <<"S">> \o str(n), content |-> <<"c">>, style |-> st,
          image |-> image, generated |-> generated]

DeckSessions ==
    UNION {
        {[k \in 1..n |-> SlideDict(k, f[k][1], f[k][2][1], f[k][2][2])] :
            f \in [1..n -> DeckStyleKeys \X DeckImageKinds]} :
        n \in 0..MaxDeckSlides}

InitDeck ==
    /\ IdleDeck
    /\ IdleHex
    /\ IdleBadge
    /\ session \in DeckSessions
    /\ looked_up = NotLookedUp
    /\ IdleDots
    /\ IdleProvider
    /\ IdleStrip
    /\ IdleApp

\* A call of create_pptx_from_slides(session).
CreatePptx(can_save) ==
    LET made == create_pptx_from_slides(session, can_save)
    IN  /\ slides' = made.slide_contents
        /\ style' = made.style_profile
        /\ exported' = made.out
        /\ UNCHANGED <<html, hex_vars, badge_vars, session_vars, dots_vars,
                       provider_vars, strip_vars, app_vars>>

\* A call of create_html_preview(session).
CreateHtml ==
    LET made == create_html_preview(session)
    IN  /\ slides' = made.slide_contents
        /\ style' = made.style_profile
        /\ html' = made.out
        /\ UNCHANGED <<exported, hex_vars, badge_vars, session_vars,
                       dots_vars, provider_vars, strip_vars, app_vars>>

NextDeck ==
    \/ \E can_save \in BOOLEAN : CreatePptx(can_save)
    \/ CreateHtml

SpecDeck == InitDeck /\ [][NextDeck]_vars

(***************************************************************************)
(* src/nano_banana_app.py: the handlers of main on st.session_state.slides  *)
(* (specification SpecApp).  One step is one run of the script: the run of  *)
(* a pressed button or of a changed widget.  What a run shows (a download,  *)
(* a success message, the batch progress) is gone in the next run.          *)
(***************************************************************************)
\* What _call_sdk does in the runs of the session: a response with a caption
\* and an image, a response with a caption only, an exception.
AppSdkOutcomes ==
    {[kind |-> "response", message |-> <<>>, parts |-> <<"text", "image">>],
     [kind |-> "response", message |-> <<>>, parts |-> <<"text">>],
     [kind |-> "raises", message |-> <<"quota exceeded">>, parts |-> <<>>]}

\* What asyncio.run(generate_slide_image(...)) does: it raises (raised), or
\* it reaches provider.generate, whose _call_sdk does sdk.
GenOutcomes ==
    {[raised |-> TRUE, sdk |-> NotCalledSdk]}
    \cup {[raised |-> FALSE, sdk |-> o] : o \in AppSdkOutcomes}

\* generate_slide_image: the fields of its dict that main reads, or the
\* exception that leaves it.
generate_slide_image(outcome) ==
    IF outcome.raised
    THEN [raised |-> TRUE, success |-> FALSE, image_base64 |-> None]
    ELSE LET result == generate(outcome.sdk)
         IN  [raised |-> FALSE, success |-> result.success,
              image_base64 |-> result.image_base64]

\* The values the user gives the widgets of one slide tab (title, content,
\* style): a description with a style, and a blank description.
AppEdits ==
    {[title |-> <<"T">>, content |-> <<"c">>, style |-> "modern_cafe"],
     [title |-> <<"T">>, content |-> <<" ">>, style |-> "taipei_metro"]}

\* The positions (1-based) of the slides that are not generated, in order:
\* ungenerated = [s for s in st.session_state.slides if not s["generated"]]
ungenerated(deck) ==
    SelectSeq([i \in 1..Len(deck) |-> i], LAMBDA i : ~deck[i].generated)

\* The batch loop ending at the first exception.
RECURSIVE BatchLoop_StopsOnException(_, _, _, _, _)
BatchLoop_StopsOnException(todo, outcomes, i, deck, log) ==
    IF i > Len(todo) THEN [slides |-> deck, log |-> log]
    ELSE LET at == todo[i]
             result == generate_slide_image(outcomes[i])
         IN  IF result.raised
             THEN [slides |-> deck,
                   log |-> Append(log, [slide |-> at, outcome |-> "raised"])]
             ELSE IF result.success
             THEN BatchLoop_StopsOnException(
                      todo, outcomes, i + 1,
                      [deck EXCEPT ![at].image = result.image_base64,
                                   ![at].generated = TRUE],
                      Append(log, [slide |-> at, outcome |-> "success"]))
             ELSE BatchLoop_StopsOnException(
                      todo, outcomes, i + 1, deck,
                      Append(log, [slide |-> at, outcome |-> "failed"]))

\* main, lines 726-742: "for i, slide in enumerate(ungenerated)" from the
\* i-th slide of todo on (1-based); deck is the session so far and log the
\* attempts so far, each with the position of its slide and how it ended.
RECURSIVE BatchLoop(_, _, _, _, _)
BatchLoop(todo, outcomes, i, deck, log) ==
    IF i > Len(todo) THEN [slides |-> deck, log |-> log]
    ELSE LET at == todo[i]
             result == generate_slide_image(outcomes[i])
         IN  IF result.raised
             THEN BatchLoop(todo, outcomes, i + 1, deck,
                            Append(log, [slide |-> at, outcome |-> "raised"]))
             ELSE IF result.success
             THEN BatchLoop(todo, outcomes, i + 1,
                            [deck EXCEPT ![at].image = result.image_base64,
                                         ![at].generated = TRUE],
                            Append(log, [slide |-> at, outcome |-> "success"]))
             ELSE BatchLoop(todo, outcomes, i + 1, deck,
                            Append(log, [slide |-> at, outcome |-> "failed"]))

\* The slide of the single-generate handler marked generated whatever the
\* result.
SingleGenerated_AlwaysMarked(slide, result) ==
    [slide EXCEPT !.image = result.image_base64, !.generated = TRUE]

\* main, lines 620-646: the slide after the single-generate handler's try
\* block, result being what generate_slide_image did.
SingleGenerated(slide, result) ==
    IF ~result.raised /\ result.success
    THEN [slide EXCEPT !.image = result.image_base64, !.generated = TRUE]
    ELSE slide

\* generated_slides = [s for s in st.session_state.slides
\*                     if s.get("generated")], its length.
generated_count(deck) ==
    Cardinality({i \in 1..Len(deck) : DictGet(deck[i], "generated", FALSE)})

InitApp ==
    /\ IdleDeck
    /\ IdleHex
    /\ IdleBadge
    /\ session = <<>>
    /\ looked_up = NotLookedUp
    /\ IdleDots
    /\ IdleProvider
    /\ IdleStrip
    /\ IdleApp

\* A run that shows no download, no success message and no batch progress.
ShowsNothing ==
    /\ slides' = <<>>
    /\ style' = METRO_STYLE
    /\ exported' = NotExported
    /\ html' = NotRendered
    /\ batch_log' = <<>>
    /\ reported' = 0

\* The button "add slide" (lines 504-513).
AddSlide ==
    /\ Len(session) < MaxAppSlides
    /\ session' = Append(session, SessionSlide(Len(session) + 1, "taipei_metro"))
    /\ ShowsNothing
    /\ UNCHANGED <<hex_vars, badge_vars, looked_up, dots_vars, provider_vars,
                   strip_vars>>

\* The widgets of slide tab i (lines 545-599) returning the user's values.
EditSlide(i, edit) ==
    /\ session' = [session EXCEPT ![i].title = edit.title,
                                  ![i].content = edit.content,
                                  ![i].style = edit.style]
    /\ ShowsNothing
    /\ UNCHANGED <<hex_vars, badge_vars, looked_up, dots_vars, provider_vars,
                   strip_vars>>

\* The generate button of slide tab i (lines 605-650), with an API key.
GenerateSingle(i, outcome) ==
    /\ session' =
        IF strip(session[i].content) = <<>> THEN session
        ELSE [session EXCEPT
                 ![i] = SingleGenerated(@, generate_slide_image(outcome))]
    /\ ShowsNothing
    /\ UNCHANGED <<hex_vars, badge_vars, looked_up, dots_vars, provider_vars,
                   strip_vars>>

\* The delete button of slide tab i (lines 653-655).
DeleteSlide(i) ==
    /\ session' = SubSeq(session, 1, i - 1) \o SubSeq(session, i + 1, Len(session))
    /\ ShowsNothing
    /\ UNCHANGED <<hex_vars, badge_vars, looked_up, dots_vars, provider_vars,
                   strip_vars>>

\* The button "generate all" (lines 708-746), with an API key; outcomes[n]
\* is what the n-th call of generate_slide_image does.
BatchGenerate(outcomes) ==
    LET done == BatchLoop(ungenerated(session), outcomes, 1, session, <<>>)
    IN  /\ session' = done.slides
        /\ batch_log' = done.log
        /\ slides' = <<>>
        /\ style' = METRO_STYLE
        /\ exported' = NotExported
        /\ html' = NotRendered
        /\ reported' = 0
        /\ UNCHANGED <<hex_vars, badge_vars, looked_up, dots_vars,
                       provider_vars, strip_vars>>

\* The button "web preview" (lines 750-775).
HtmlPreview ==
    LET made == create_html_preview(session)
    IN  /\ IF generated_count(session) = 0 THEN ShowsNothing
           ELSE /\ slides' = made.slide_contents
                /\ style' = made.style_profile
                /\ html' = made.out
                /\ reported' = generated_count(session)
                /\ exported' = NotExported
                /\ batch_log' = <<>>
        /\ UNCHANGED <<hex_vars, badge_vars, session_vars, dots_vars,
                       provider_vars, strip_vars>>

\* The button "export deck" (lines 779-798); the temporary file can be
\* written only if can_save.
ExportPptx(can_save) ==
    LET made == create_pptx_from_slides(session, can_save)
    IN  /\ IF generated_count(session) = 0 THEN ShowsNothing
           ELSE /\ slides' = made.slide_contents
                /\ style' = made.style_profile
                /\ exported' = made.out
                /\ reported' = IF made.out.status = "saved"
                                THEN generated_count(session) ELSE 0
                /\ html' = NotRendered
                /\ batch_log' = <<>>
        /\ UNCHANGED <<hex_vars, badge_vars, session_vars, dots_vars,
                       provider_vars, strip_vars>>

\* The button "clear all" (lines 822-826); confirmed is what the checkbox
\* returns.
ClearAll(confirmed) ==
    /\ session' = IF confirmed THEN <<>> ELSE session
    /\ ShowsNothing
    /\ UNCHANGED <<hex_vars, badge_vars, looked_up, dots_vars, provider_vars,
                   strip_vars>>

NextApp ==
    \/ AddSlide
    \/ \E i \in 1..Len(session) : \E edit \in AppEdits : EditSlide(i, edit)
    \/ \E i \in 1..Len(session) : \E outcome \in GenOutcomes :
           GenerateSingle(i, outcome)
    \/ \E i \in 1..Len(session) : DeleteSlide(i)
    \/ \E outcomes \in [1..Len(ungenerated(session)) -> GenOutcomes] :
           BatchGenerate(outcomes)
    \/ HtmlPreview
    \/ \E can_save \in BOOLEAN : ExportPptx(can_save)
    \/ \E confirmed \in BOOLEAN : ClearAll(confirmed)

SpecApp == InitApp /\ [][NextApp]_vars

(***************************************************************************)
(* Reading the outputs.                                                    *)
(***************************************************************************)
ShapesOfKind(page, kind) == SelectSeq(page, LAMBDA sh : sh.kind = kind)

\* The fill of the page's horizontal line: the accent colour of the page.
PageAccent(page) == ShapesOfKind(page, "line")[1].fill

PageBadge(page) == ShapesOfKind(page, "circle")[1].text

PageDots(page) == ShapesOfKind(page, "dot")

\* The "active" look of an exported dot: white, with a coloured border.
DotIsActive(dot) == dot.fill = White /\ dot.line # NoColor

Saved == exported.status = "saved"

Rendered == html.status = "rendered"

UnknownTag(k) == slides[k].framework_section \notin DOMAIN style.logic_color_map

RECURSIVE DecimalValue(_)
DecimalValue(text) ==
    IF text = <<>> THEN 0
    ELSE 10 * DecimalValue(SubSeq(text, 1, Len(text) - 1))
         + (CHOOSE d \in 0..9 : DecimalDigits[d + 1] = text[Len(text)])

\* text is k in decimal, padded on the left with zeros to at least 2 digits.
IsBadgeOf(text, k) ==
    /\ Len(text) >= 2
    /\ \A p \in 1..Len(text) : \E d \in 1..10 : DecimalDigits[d] = text[p]
    /\ Len(text) > 2 => text[1] # "0"
    /\ DecimalValue(text) = k

(***************************************************************************)
(* Claims on the exporter and the renderer (specification Spec).           *)
(***************************************************************************)
\* C1 (as claimed): under any catalog style, a slide whose section tag is
\* not a key of the style's logic_color_map gets the same accent colour as a
\* slide tagged "default", in the exported pages and in the rendered units.
C1_UnknownTagResolvesAsDefault ==
    \A j, k \in 1..Len(slides) :
        (UnknownTag(j) /\ slides[k].framework_section = "default") =>
            /\ Saved =>
                PageAccent(exported.pages[j]) = PageAccent(exported.pages[k])
            /\ Rendered =>
                CssColor(html.units[j].metro_line)
                    = CssColor(html.units[k].metro_line)

\* C2: for every catalog style and every slide, whatever its section tag,
\* the accent colour on the exported page and the accent colour in the
\* rendered unit of the same slide denote the same RGB value.
C2_SameAccentInBothOutputs ==
    (Saved /\ Rendered) =>
        \A k \in 1..Len(slides) :
            PageAccent(exported.pages[k]) = CssColor(html.units[k].metro_line)

C2_Witness ==
    /\ Saved
    /\ Rendered
    /\ \E j, k \in 1..Len(slides) : UnknownTag(j) /\ ~UnknownTag(k)

\* C3: export of N slides creates exactly N pages, page k carries the title
\* and body of the k-th input slide, and its badge is k in decimal padded
\* with zeros to at least 2 digits.
C3_OnePagePerSlideInOrder ==
    /\ exported.status \in {"none", "saved"}
    /\ Saved =>
        /\ Len(exported.pages) = Len(slides)
        /\ \A k \in 1..Len(slides) :
            /\ ShapesOfKind(exported.pages[k], "title_box")[1].text
                   = slides[k].title
            /\ ShapesOfKind(exported.pages[k], "body_box")[1].text
                   = slides[k].body_text
            /\ Len(ShapesOfKind(exported.pages[k], "circle")) = 1
            /\ IsBadgeOf(PageBadge(exported.pages[k]), k)

C3_Witness == Saved /\ Len(slides) >= 3 /\ Len(exported.pages) >= 3

\* C4 (as claimed): in the exporter and in the renderer, the progress row
\* of slide k of N has exactly N dots, and exactly the dot at position k is
\* active.
C4_OneActiveDotAtOwnPosition ==
    /\ Saved =>
        \A k \in 1..Len(slides) :
            /\ Len(PageDots(exported.pages[k])) = Len(slides)
            /\ {i \in 1..Len(slides) :
                    DotIsActive(PageDots(exported.pages[k])[i])} = {k}
    /\ Rendered =>
        \A k \in 1..Len(slides) :
            /\ Len(html.units[k].dots) = Len(slides)
            /\ {i \in 1..Len(slides) : html.units[k].dots[i].active} = {k}

\* '#' followed by exactly six hexadecimal digits.
IsHashHex6(c) ==
    /\ Len(c) = 7
    /\ c[1] = "#"
    /\ \A p \in 2..7 : c[p] \in DOMAIN HexValue

\* C8: every profile of the catalog (the style in use ranges over all of
\* them) has a "default" entry in its logic_color_map, every colour of the
\* map is '#' and six hexadecimal digits, and _hex_to_rgb returns a colour
\* for it.
C8_CatalogColoursWellFormed ==
    /\ \E t \in DOMAIN _styles : style = _styles[t]
    /\ "default" \in DOMAIN style.logic_color_map
    /\ \A key \in DOMAIN style.logic_color_map :
        /\ IsHashHex6(style.logic_color_map[key])
        /\ _hex_to_rgb(style.logic_color_map[key]).exc = "none"

C8_Witness ==
    /\ Saved
    /\ style = FLAT_INFOGRAPHIC_STYLE
    /\ \E k \in 1..Len(slides) :
        /\ slides[k].framework_section = "default"
        /\ PageAccent(exported.pages[k]) = <<30, 41, 59>>

SectionsOf(deck) == [k \in 1..Len(deck) |-> deck[k].framework_section]

\* The pages of the Taipei Metro round trip: accents #E3002C, #0070BD and
\* #008659, badges "01", "02", "03".
MetroRoundTripPages ==
    /\ Len(exported.pages) = 3
    /\ PageAccent(exported.pages[1]) = <<227, 0, 44>>
    /\ PageAccent(exported.pages[2]) = <<0, 112, 189>>
    /\ PageAccent(exported.pages[3]) = <<0, 134, 89>>
    /\ PageBadge(exported.pages[1]) = <<"0", "1">>
    /\ PageBadge(exported.pages[2]) = <<"0", "2">>
    /\ PageBadge(exported.pages[3]) = <<"0", "3">>

\* C10 (as claimed): exporting three slides tagged "opening", "examples",
\* "closing" with the Taipei Metro theme gives three pages with accents
\* #E3002C, #0070BD, #008659 and badges "01", "02", "03".
C10_RoundTripAsClaimed ==
    (/\ Saved
     /\ style = METRO_STYLE
     /\ SectionsOf(slides) = <<"opening", "examples", "closing">>)
        => MetroRoundTripPages

\* C10 (amended): exporting three slides tagged "point_opening", "examples",
\* "point_closing" with the Taipei Metro theme gives three pages with
\* accents #E3002C, #0070BD, #008659 and badges "01", "02", "03".
C10_RoundTripWithCatalogKeys ==
    (/\ Saved
     /\ style = METRO_STYLE
     /\ SectionsOf(slides) = <<"point_opening", "examples", "point_closing">>)
        => MetroRoundTripPages

C10_Witness ==
    /\ Saved
    /\ style = METRO_STYLE
    /\ SectionsOf(slides) = <<"point_opening", "examples", "point_closing">>

(***************************************************************************)
(* Claims on background payloads, the empty deck, the order of the shapes  *)
(* and the exceptions of export (specification SpecImage).                 *)
(***************************************************************************)
\* The stored payload begins with the data-URI prefix.
HasDataUriPrefix(text) ==
    Len(text) >= Len(DataUriPrefix)
    /\ SubSeq(text, 1, Len(DataUriPrefix)) = DataUriPrefix

\* The payload proper: the stored text without a leading data-URI prefix.
PayloadBody(text) ==
    IF HasDataUriPrefix(text)
    THEN SubSeq(text, Len(DataUriPrefix) + 1, Len(text))
    ELSE text

AbsentImage(image) == image.none \/ image.s = <<>>

\* A payload that is present and that cannot be decoded or inserted.
CorruptImage(image) ==
    ~AbsentImage(image) /\ PayloadBody(image.s) \notin DecodablePictures

GoodImage(image) ==
    ~AbsentImage(image) /\ PayloadBody(image.s) \in DecodablePictures

ImageOf(k) == slides[k].background_image_base64

\* Every element of a page other than the picture: line, badge, one dot per
\* slide, the two panels, the vertical bar and the two texts of slide k.
HasAllButPicture(page, k) ==
    /\ Len(ShapesOfKind(page, "line")) = 1
    /\ Len(ShapesOfKind(page, "circle")) = 1
    /\ IsBadgeOf(PageBadge(page), k)
    /\ Len(PageDots(page)) = Len(slides)
    /\ Len(ShapesOfKind(page, "title_bg")) = 1
    /\ Len(ShapesOfKind(page, "body_bg")) = 1
    /\ Len(ShapesOfKind(page, "accent_bar")) = 1
    /\ Len(ShapesOfKind(page, "title_box")) = 1
    /\ ShapesOfKind(page, "title_box")[1].text = slides[k].title
    /\ Len(ShapesOfKind(page, "body_box")) = 1
    /\ ShapesOfKind(page, "body_box")[1].text = slides[k].body_text

\* The deck with the image of every slide that carries a corrupt payload
\* removed.
WithoutCorruptImages(deck) ==
    [k \in 1..Len(deck) |->
        IF CorruptImage(deck[k].background_image_base64)
        THEN [deck[k] EXCEPT !.background_image_base64 = None]
        ELSE deck[k]]

\* C11: with slides whose background payload cannot be decoded or inserted,
\* export is not left by an exception of the decoding or insertion; the
\* page of such a slide has no picture and all its other elements, and
\* every page of the deck is the page the same deck gives when the corrupt
\* slides carry no image.
C11_CorruptBackgroundSkipped ==
    /\ exported.exc \notin {"ValueError", "binascii.Error", "TypeError"}
    /\ Saved =>
        /\ Len(exported.pages) = Len(slides)
        /\ \A k \in 1..Len(slides) :
            /\ CorruptImage(ImageOf(k)) =>
                /\ ShapesOfKind(exported.pages[k], "picture") = <<>>
                /\ HasAllButPicture(exported.pages[k], k)
            /\ exported.pages[k]
                 = export(WithoutCorruptImages(slides), style).pages[k]

C11_Witness ==
    /\ Saved
    /\ \E j, k \in 1..Len(slides) :
        /\ CorruptImage(ImageOf(j))
        /\ GoodImage(ImageOf(k))
        /\ Len(ShapesOfKind(exported.pages[k], "picture")) = 1

\* C12: for a slide whose background image is None or the empty string,
\* the exported page has no picture shape and the rendered unit's url holds
\* no data URI; export and render complete, and the page and the unit carry
\* all their other elements.
C12_AbsentBackgroundOmitted ==
    /\ html.status \in {"none", "rendered"}
    /\ exported.status = "raised" => exported.exc \in {CannotCreate, CannotSave}
    /\ \A k \in 1..Len(slides) :
        AbsentImage(ImageOf(k)) =>
            /\ Saved =>
                /\ ShapesOfKind(exported.pages[k], "picture") = <<>>
                /\ HasAllButPicture(exported.pages[k], k)
            /\ Rendered =>
                /\ html.units[k].background_url = <<>>
                /\ IsBadgeOf(html.units[k].badge, k)
                /\ Len(html.units[k].dots) = Len(slides)
                /\ html.units[k].metro_line
                     = RenderColor(style, slides[k].framework_section)
                /\ html.units[k].title = slides[k].title
                /\ html.units[k].body = slides[k].body_text

C12_Witness ==
    /\ Saved
    /\ Rendered
    /\ \E j, k \in 1..Len(slides) :
        ImageOf(j) = None /\ ImageOf(k) = Text(<<>>)

\* C13: render of an empty slide list returns, without raising, the whole
\* document shell (doctype, head with the style sheet, body with the
\* container) with no slide unit in it.
C13_EmptyDeckGivesShell ==
    (slides = <<>> /\ html.status # "none") =>
        /\ Rendered
        /\ html.doctype = "html"
        /\ html.charset = "UTF-8"
        /\ html.css = presentation_css
        /\ html.container = "container"
        /\ html.units = <<>>

C13_Witness == slides = <<>> /\ Rendered

KindsOf(page) == [i \in 1..Len(page) |-> page[i].kind]

\* The position of each kind of element in the claimed layering order.
ClaimedLayer ==
    ("picture" :> 1) @@ ("line" :> 2) @@ ("circle" :> 3) @@ ("dot" :> 4) @@
    ("title_bg" :> 5) @@ ("body_bg" :> 6) @@ ("accent_bar" :> 7) @@
    ("title_box" :> 8) @@ ("body_box" :> 9)

\* The same with the title text before the vertical accent bar.
AddedLayer ==
    ("picture" :> 1) @@ ("line" :> 2) @@ ("circle" :> 3) @@ ("dot" :> 4) @@
    ("title_bg" :> 5) @@ ("body_bg" :> 6) @@ ("title_box" :> 7) @@
    ("accent_bar" :> 8) @@ ("body_box" :> 9)

\* No element of the page was added before an element listed earlier.
AddedInOrder(page, layer) ==
    \A i, j \in 1..Len(page) :
        i < j => layer[page[i].kind] <= layer[page[j].kind]

\* C15 (as claimed): on every exported page the shapes are added in the
\* order picture (if any), horizontal bar, badge, dots, title panel, body
\* panel, vertical accent bar, title text, body text.
C15_ShapeOrderAsClaimed ==
    Saved =>
        \A k \in 1..Len(slides) : AddedInOrder(exported.pages[k], ClaimedLayer)

\* C15 (amended): on every exported page the shapes are added in the order
\* picture (if any), horizontal bar, badge, dots, title panel, body panel,
\* title text, vertical accent bar, body text; the picture is there exactly
\* when the slide's payload decodes, and every other element exactly once
\* (one dot per slide).
C15_ShapeOrderAsAdded ==
    Saved =>
        \A k \in 1..Len(slides) :
            /\ AddedInOrder(exported.pages[k], AddedLayer)
            /\ HasAllButPicture(exported.pages[k], k)
            /\ Len(ShapesOfKind(exported.pages[k], "picture"))
                 = (IF GoodImage(ImageOf(k)) THEN 1 ELSE 0)
            /\ Len(exported.pages[k])
                 = Len(slides) + 7
                   + Len(ShapesOfKind(exported.pages[k], "picture"))

C15_Witness ==
    /\ Saved
    /\ Len(slides) >= 2
    /\ \E k \in 1..Len(slides) :
        KindsOf(exported.pages[k])
            = <<"picture", "line", "circle", "dot", "dot", "title_bg",
                "body_bg", "title_box", "accent_bar", "body_box">>

\* C16: export is left by an exception only when the document cannot be
\* created or the output path cannot be written: whatever the section tags,
\* the background payloads (present, absent, corrupt) and the catalog
\* style, no step between the two raises, and nothing is saved when one of
\* the two does.
C16_OnlyEnvironmentRaises ==
    /\ exported.status \in {"none", "saved", "raised"}
    /\ exported.status = "raised" <=> exported.exc \in {CannotCreate, CannotSave}
    /\ exported.status = "saved" <=> exported.exc = "none" /\ exported # NotExported
    /\ exported.status = "raised" => exported.pages = <<>>

C16_Witness ==
    /\ Saved
    /\ \E i, j, k \in 1..Len(slides) :
        /\ UnknownTag(i)
        /\ CorruptImage(ImageOf(j))
        /\ AbsentImage(ImageOf(k))

\* How many times the data-URI prefix occurs in a url.
PrefixCount(url) ==
    Cardinality({i \in 1..(Len(url) - 1) :
                    <<url[i], url[i + 1]>> = DataUriPrefix})

\* C17: the renderer does not strip a data-URI prefix the stored payload
\* already begins with: the url of such a slide holds the prefix twice,
\* the url of a slide whose payload has no prefix holds it once.
C17_PrefixNotStripped ==
    Rendered =>
        \A k \in 1..Len(slides) :
            ~AbsentImage(ImageOf(k)) =>
                /\ HasDataUriPrefix(ImageOf(k).s) =>
                    /\ PrefixCount(html.units[k].background_url) = 2
                    /\ html.units[k].background_url
                         = DataUriPrefix \o ImageOf(k).s
                /\ ~HasDataUriPrefix(ImageOf(k).s) =>
                    PrefixCount(html.units[k].background_url) = 1

C17_Witness ==
    /\ Rendered
    /\ \E j, k \in 1..Len(slides) :
        /\ ~AbsentImage(ImageOf(j)) /\ HasDataUriPrefix(ImageOf(j).s)
        /\ ~AbsentImage(ImageOf(k)) /\ ~HasDataUriPrefix(ImageOf(k).s)

\* The accent colour slide k of the deck resolves to under the style in use.
OwnColour(k) ==
    IF slides[k].framework_section \in DOMAIN style.logic_color_map
    THEN style.logic_color_map[slides[k].framework_section]
    ELSE <<"#", "3", "3", "3", "3", "3", "3">>

\* C25: within one slide every accent-coloured element carries the slide's
\* one accent colour.  Exporter: the horizontal line's fill, the badge's
\* border and text, the active dot's border and the vertical title bar have
\* the same RGB value.  Renderer: the line, the badge's border and text, the
\* active dots' border and the title's left border have the same colour
\* string.  In both the colour is the one slide k itself resolves to.
C25_OneAccentPerSlide ==
    /\ Saved =>
         \A k \in 1..Len(slides) :
            LET page == exported.pages[k]
                c == PageAccent(page)
                circle == ShapesOfKind(page, "circle")[1]
                bar == ShapesOfKind(page, "accent_bar")[1]
            IN  /\ c = CssColor(OwnColour(k))
                /\ circle.line = c
                /\ circle.font = c
                /\ bar.fill = c
                /\ \A d \in 1..Len(PageDots(page)) :
                       DotIsActive(PageDots(page)[d]) =>
                           PageDots(page)[d].line = c
    /\ Rendered =>
         \A k \in 1..Len(slides) :
            LET unit == html.units[k]
                c == unit.metro_line
            IN  /\ CssColor(c) = CssColor(OwnColour(k))
                /\ unit.badge_border = c
                /\ unit.badge_color = c
                /\ unit.title_border = c
                /\ \A d \in 1..Len(unit.dots) :
                       unit.dots[d].active => unit.dots[d].border = c

\* A deck of two slides with different accent colours is saved and rendered.
C25_Witness ==
    /\ Saved
    /\ Rendered
    /\ Len(slides) = 2
    /\ PageAccent(exported.pages[1]) # PageAccent(exported.pages[2])
    /\ html.units[1].metro_line # html.units[2].metro_line
    /\ ShapesOfKind(exported.pages[2], "accent_bar")[1].fill
           = PageAccent(exported.pages[2])

\* The class names some rule of the sheet is written for.
ClassesWithRule(css) == UNION {rule.classes : rule \in css}

\* C26 (as claimed): every CSS class the renderer's per-slide markup refers
\* to (slide, accent line, station badge, progress dots, progress dot, text
\* content) is defined by a rule of the embedded style sheet.
C26_MarkupClassesHaveRules ==
    Rendered =>
        \A k \in 1..Len(html.units) :
            \A part \in DOMAIN html.units[k].classes :
                html.units[k].classes[part] \in ClassesWithRule(html.css)

\* C23: no call of export or render changes what it was given: after the
\* call the slide records are the records passed in and the style profile is
\* the profile passed in, still the catalog's profile of that style.
C23_InputsUntouched ==
    [][/\ slides' = slides
       /\ style' = style
       /\ \E t \in DOMAIN _styles : StyleRegistry_get(t) = style']_vars

\* A deck with a prefixed payload has been exported and rendered.
C23_Witness ==
    /\ Saved
    /\ Rendered
    /\ \E k \in 1..Len(slides) :
           /\ Truthy(slides[k].background_image_base64)
           /\ HasComma(slides[k].background_image_base64.s)
           /\ ShapesOfKind(exported.pages[k], "picture") # <<>>

(***************************************************************************)
(* Claims on the progress-dot geometry (specification SpecDots).           *)
(***************************************************************************)
\* C14 (as claimed): for every total slide count N >= 1 the row of dots
\* lies within the page width: start_x >= 0, no dot begins left of the
\* page, and the right edge of the last dot is at most the page width.
C14_DotsWithinPageWidth ==
    dot_left # <<>> =>
        /\ start_x(dot_total) >= 0
        /\ \A i \in 1..dot_total : dot_left[i] >= 0
        /\ dot_left[dot_total] + dot_size <= SlideWidth

(***************************************************************************)
(* Claims on the image provider (specification SpecProvider).              *)
(***************************************************************************)
\* The loop of _parse_response converted an image part of the response to
\* a non-empty payload.
ImagePartExtracted(outcome) ==
    /\ outcome.kind = "response"
    /\ \E i \in 1..Len(outcome.parts) :
        /\ outcome.parts[i] = "image"
        /\ \A j \in 1..(i - 1) : outcome.parts[j] # "image_unsavable"

\* C20 (as claimed): generate does not raise to its caller; its result is
\* either success with a non-empty image payload or failure with a
\* non-empty error message; and success holds exactly when an image part
\* was extracted from the response.
C20_ResultIsImageOrMessage ==
    gen_result.called =>
        /\ ~gen_result.raised
        /\ gen_result.success => Truthy(gen_result.image_base64)
        /\ ~gen_result.success => Truthy(gen_result.error)
        /\ gen_result.success <=> ImagePartExtracted(sdk_outcome)

(***************************************************************************)
(* Claims on the data-URI prefix in the exporter (specification SpecStrip). *)
(***************************************************************************)
CommaCount(s) == Cardinality({i \in 1..Len(s) : s[i] = ","})

\* The text after the first comma of s, to the end of s.
RestAfterComma(s) ==
    LET first == CHOOSE i \in 1..Len(s) :
                     s[i] = "," /\ \A j \in 1..(i - 1) : s[j] # ","
    IN  SubSeq(s, first + 1, Len(s))

\* What the claim says _set_background decodes.
DecodedText(s) == IF CommaCount(s) = 0 THEN s ELSE RestAfterComma(s)

PictureOf(text) ==
    IF text \in DecodablePictures
    THEN <<Shape("picture", "PICTURE", NoColor, 0, NoColor, text, NoColor)>>
    ELSE <<>>

\* C24: for a payload with at most one comma, _set_background decodes
\* exactly the text after the comma when there is one and the whole payload
\* otherwise; the payload behind a data-URI prefix gives the same picture as
\* the payload without it; and stripping is idempotent: the stripped text,
\* given again, gives the same picture.
C24_PrefixStrippedOnce ==
    (bg_result.called /\ CommaCount(bg_payload) <= 1) =>
        /\ bg_result.shapes = PictureOf(DecodedText(bg_payload))
        /\ _set_background(<<>>, DecodedText(bg_payload)) = bg_result.shapes
        /\ CommaCount(bg_payload) = 0 =>
               _set_background(<<>>, DataUriPrefix \o bg_payload)
                   = bg_result.shapes

\* A prefixed payload has given its picture.
C24_Witness ==
    /\ bg_result.called
    /\ bg_payload = DataUriPrefix \o <<"PNG64">>
    /\ Len(bg_result.shapes) = 1
    /\ bg_result.shapes[1].text = <<"PNG64">>

(***************************************************************************)
(* Claims on the decks the orchestrator builds (specification SpecDeck).    *)
(***************************************************************************)
\* The 1-based positions of the session's slides that go into the deck.
IncludedPositions ==
    {i \in 1..Len(session) :
        session[i].generated /\ Truthy(session[i].image)}

\* The session position of the deck's j-th slide.
NthIncluded(j) ==
    CHOOSE i \in IncludedPositions :
        Cardinality({x \in IncludedPositions : x <= i}) = j

SlideIdOf(i) == <<"s", "l", "i", "d", "e", "_">> \o str(i)

\* C28: when ungenerated slides are skipped, badges and dots are positional
\* in the filtered deck: with M included slides the pages carry the badges
\* 01..M without gaps and every page has M dots, in the exporter and in the
\* renderer, while each slide_id keeps the slide's position in the
\* unfiltered list.
C28_BadgesPositionalInFilteredDeck ==
    LET M == Cardinality(IncludedPositions)
    IN  /\ Saved =>
             /\ Len(exported.pages) = M
             /\ \A j \in 1..M :
                    /\ IsBadgeOf(PageBadge(exported.pages[j]), j)
                    /\ Len(PageDots(exported.pages[j])) = M
                    /\ slides[j].slide_id = SlideIdOf(NthIncluded(j))
        /\ Rendered =>
             /\ Len(html.units) = M
             /\ \A j \in 1..M :
                    /\ IsBadgeOf(html.units[j].badge, j)
                    /\ Len(html.units[j].dots) = M
                    /\ slides[j].slide_id = SlideIdOf(NthIncluded(j))

\* The first slide was skipped: the deck's only page is slide_2, badge 01.
C28_Witness ==
    /\ Saved
    /\ Rendered
    /\ IncludedPositions = {2}
    /\ slides[1].slide_id = SlideIdOf(2)
    /\ PageBadge(exported.pages[1]) = <<"0", "1">>
    /\ html.units[1].badge = <<"0", "1">>

\* The section tag the claim gives the deck's j-th slide.
StyleTagOf(j) == DictGet(session[NthIncluded(j)], "style", "default")

FallbackRGB == CssColor(<<"#", "3", "3", "3", "3", "3", "3">>)

\* C29 (as claimed): every SlideContent the orchestrator assembles has the
\* slide's style identifier as its section tag ("default" when the style is
\* missing); no style identifier is a key of a catalog logic_color_map, so
\* every page that carries a style identifier is drawn in the hard-coded
\* fallback colour.
C29_StyleTagsResolveToFallback ==
    /\ \A st \in StyleType : \A t \in DOMAIN _styles :
           st \notin DOMAIN _styles[t].logic_color_map
    /\ (Saved \/ Rendered) =>
           \A j \in 1..Len(slides) :
              slides[j].framework_section = StyleTagOf(j)
    /\ Saved =>
           \A j \in 1..Len(slides) :
              slides[j].framework_section \in StyleType =>
                  PageAccent(exported.pages[j]) = FallbackRGB
    /\ Rendered =>
           \A j \in 1..Len(slides) :
              slides[j].framework_section \in StyleType =>
                  CssColor(html.units[j].metro_line) = FallbackRGB

\* C29 (amended): every SlideContent the orchestrator assembles has the
\* slide's style identifier as its section tag ("default" when the style is
\* missing); no style identifier other than "default" (StyleType.DEFAULT)
\* is a key of a catalog logic_color_map, so every page that carries a style
\* identifier other than "default" is drawn in the hard-coded fallback
\* colour, and a page that carries "default" in the theme's "default" colour.
C29_StyleTagsButDefaultResolveToFallback ==
    /\ \A st \in StyleType \ {"default"} : \A t \in DOMAIN _styles :
           st \notin DOMAIN _styles[t].logic_color_map
    /\ \A t \in DOMAIN _styles : "default" \in DOMAIN _styles[t].logic_color_map
    /\ (Saved \/ Rendered) =>
           \A j \in 1..Len(slides) :
              slides[j].framework_section = StyleTagOf(j)
    /\ Saved =>
           \A j \in 1..Len(slides) :
              LET tag == slides[j].framework_section
              IN  /\ tag \in StyleType \ {"default"} =>
                         PageAccent(exported.pages[j]) = FallbackRGB
                  /\ tag = "default" =>
                         PageAccent(exported.pages[j])
                             = CssColor(style.logic_color_map["default"])
    /\ Rendered =>
           \A j \in 1..Len(slides) :
              LET tag == slides[j].framework_section
              IN  /\ tag \in StyleType \ {"default"} =>
                         CssColor(html.units[j].metro_line) = FallbackRGB
                  /\ tag = "default" =>
                         html.units[j].metro_line
                             = style.logic_color_map["default"]

\* Under the cafe theme one page carries "modern_cafe" and is drawn in the
\* fallback colour, another carries "default" and is drawn in the theme's
\* own default colour.
C29_Witness ==
    /\ Saved
    /\ Rendered
    /\ style = MODERN_CAFE_STYLE
    /\ Len(slides) = 2
    /\ slides[1].framework_section = "modern_cafe"
    /\ PageAccent(exported.pages[1]) = FallbackRGB
    /\ slides[2].framework_section = "default"
    /\ PageAccent(exported.pages[2]) # FallbackRGB

\* The theme the claim gives the session's deck.
FirstSlideTheme ==
    IF /\ session # <<>>
       /\ "style" \in DOMAIN session[1]
       /\ session[1].style \in StyleType
    THEN StyleRegistry_get(session[1].style)
    ELSE StyleRegistry_get("taipei_metro")

\* C30: the theme of an orchestrator-built deck is the style of the first
\* slide of the unfiltered session list (TAIPEI_METRO when that style is
\* missing or not a StyleType), whether or not that slide is in the deck;
\* create_pptx_from_slides and create_html_preview choose the same theme.
C30_ThemeOfFirstSessionSlide ==
    (Saved \/ Rendered) => style = FirstSlideTheme

\* The first slide is left out of the deck and still gives the theme.
C30_Witness ==
    /\ Saved
    /\ Rendered
    /\ Len(session) = 2
    /\ 1 \notin IncludedPositions
    /\ 2 \in IncludedPositions
    /\ DictGet(session[1], "style", "") = "modern_cafe"
    /\ DictGet(session[2], "style", "") = "taipei_metro"
    /\ style = MODERN_CAFE_STYLE

(***************************************************************************)
(* Claims on the session of main (specification SpecApp).                   *)
(***************************************************************************)
\* The positions of the session's slides that are not generated.
UngeneratedPositions(deck) == {i \in 1..Len(deck) : ~deck[i].generated}

\* C21: in a batch generation over the ungenerated slides, a failure for one
\* slide (a failed result or a raised exception) does not stop the loop:
\* every ungenerated slide, those after the failure included, is attempted
\* once and in order; a slide generated successfully has its image, before
\* and after the batch; a slide whose attempt failed stays as it was,
\* ungenerated, and is not in the deck of a later export or preview.
C21_BatchSurvivesFailures ==
    [][/\ batch_log' # <<>> =>
            /\ Len(session') = Len(session)
            /\ Len(batch_log') = Cardinality(UngeneratedPositions(session))
            /\ \A n \in 1..Len(batch_log') :
                   /\ batch_log'[n].slide \in UngeneratedPositions(session)
                   /\ \A m \in 1..(n - 1) :
                          batch_log'[m].slide < batch_log'[n].slide
                   /\ IF batch_log'[n].outcome = "success"
                      THEN /\ session'[batch_log'[n].slide].generated
                           /\ Truthy(session'[batch_log'[n].slide].image)
                      ELSE /\ session'[batch_log'[n].slide]
                                  = session[batch_log'[n].slide]
                           /\ ~session'[batch_log'[n].slide].generated
            /\ \A i \in 1..Len(session) :
                   session[i].generated => session'[i] = session[i]
       /\ (exported'.status = "saved" \/ html'.status = "rendered") =>
            /\ Len(slides') =
                   Len(session') - Cardinality(UngeneratedPositions(session'))
            /\ \A j \in 1..Len(slides') :
                   Truthy(slides'[j].background_image_base64)]_vars

\* A batch whose first attempt raised and whose second attempt succeeded.
C21_Witness ==
    /\ Len(batch_log) = 2
    /\ batch_log[1].outcome = "raised"
    /\ batch_log[2].outcome = "success"
    /\ ~session[batch_log[1].slide].generated
    /\ session[batch_log[2].slide].generated

\* C27: in every state of the session a slide with generated = true has a
\* non-empty image payload; so the deck of create_pptx_from_slides and of
\* create_html_preview holds exactly the slides with generated = true, and
\* its size is the count of the success message.
C27_GeneratedSlidesHaveImages ==
    LET generated == {i \in 1..Len(session) : session[i].generated}
        RECURSIVE InOrder(_)
        InOrder(i) ==
            IF i > Len(session) THEN <<>>
            ELSE (IF i \in generated THEN <<i>> ELSE <<>>) \o InOrder(i + 1)
    IN  /\ \A i \in generated : Truthy(session[i].image)
        /\ (Saved \/ Rendered) =>
               /\ Len(slides) = Cardinality(generated)
               /\ \A j \in 1..Len(slides) :
                      /\ slides[j].slide_id = SlideIdOf(InOrder(1)[j])
                      /\ slides[j].background_image_base64
                             = session[InOrder(1)[j]].image
               /\ reported = Len(slides)
        /\ Saved => Len(exported.pages) = Cardinality(generated)
        /\ Rendered => Len(html.units) = Cardinality(generated)
        /\ reported # 0 => (Saved \/ Rendered)

\* A session of two slides, one generated, exported with the message "1".
C27_Witness ==
    /\ Saved
    /\ Len(session) = 2
    /\ ~session[1].generated
    /\ session[2].generated
    /\ Len(exported.pages) = 1
    /\ reported = 1

(***************************************************************************)
(* Claims on the badge formats (specification SpecBadge).                  *)
(***************************************************************************)
\* C5: for every slide position k >= 1, positions of 100 and more included,
\* the exporter's badge text (str(k).zfill(2)) and the renderer's badge
\* text ("%02d" of loop.index) are the same text.
C5_SameBadgeText ==
    (badge_pptx # <<>> /\ badge_html # <<>>) => badge_pptx = badge_html

C5_Witness ==
    /\ badge_index >= 100
    /\ badge_pptx # <<>>
    /\ badge_html # <<>>

(***************************************************************************)
(* Claims on the style keys (specification SpecSession).                   *)
(***************************************************************************)
\* C6: StyleRegistry.get with a key that is not a registered style
\* identifier returns METRO_STYLE.
C6_UnknownKeyGivesMetro ==
    (looked_up.called /\ looked_up.style_type \notin DOMAIN _styles) =>
        looked_up.profile = METRO_STYLE

C6_Witness ==
    /\ looked_up.called
    /\ looked_up.style_type = "unknown_style"

C18_EnumAndCatalogOneToOne ==
    /\ \A key \in DOMAIN _styles : key \in StyleType
    /\ (looked_up.called /\ looked_up.style_type \in StyleType) =>
        /\ looked_up.style_type \in DOMAIN _styles
        /\ looked_up.profile = _styles[looked_up.style_type]
        /\ \A other \in StyleType \ {looked_up.style_type} :
            StyleRegistry_get(other) # looked_up.profile

\* C18 (amended): every catalog key is a StyleType member with its own
\* profile, and every StyleType member except DEFAULT is a catalog key;
\* DEFAULT has no catalog entry and StyleRegistry.get(DEFAULT) returns
\* METRO_STYLE through the fallback.
C18_EnumIsCatalogPlusDefault ==
    /\ \A key \in DOMAIN _styles : key \in StyleType
    /\ \A a, b \in DOMAIN _styles : a # b => _styles[a] # _styles[b]
    /\ StyleType \ DOMAIN _styles = {"default"}
    /\ (looked_up.called /\ looked_up.style_type \in StyleType) =>
        IF looked_up.style_type = "default"
        THEN looked_up.profile = METRO_STYLE
        ELSE /\ looked_up.style_type \in DOMAIN _styles
             /\ looked_up.profile = _styles[looked_up.style_type]
             /\ \A other \in DOMAIN _styles \ {looked_up.style_type} :
                 StyleRegistry_get(other) # looked_up.profile

C18_Witness ==
    /\ looked_up.called
    /\ looked_up.style_type = "default"
    /\ looked_up.profile = METRO_STYLE

\* C19: the legacy remap table sends each legacy key to one current
\* StyleType that has a profile in the catalog, no two legacy keys to the
\* same one, and no legacy key is itself a current identifier; the remap
\* step changes only a style that is no current identifier, to the table's
\* entry for a legacy key and to TAIPEI_METRO for any other string, so the
\* style it leaves is always a current StyleType.
C19_LegacyRemapOneToOne ==
    [][/\ \A key \in DOMAIN old_style_map :
            /\ old_style_map[key] \in StyleType
            /\ old_style_map[key] \in DOMAIN _styles
            /\ key \notin StyleType
       /\ \A a, b \in DOMAIN old_style_map :
            a # b => old_style_map[a] # old_style_map[b]
       /\ \A i \in 1..Len(session) :
            /\ RemappedStyle(session[i].style) \in StyleType
            /\ session'[i].style # session[i].style =>
                /\ session[i].style \notin StyleType
                /\ session'[i].style \in StyleType
                /\ session'[i].style
                     = (IF session[i].style \in DOMAIN old_style_map
                        THEN old_style_map[session[i].style]
                        ELSE "taipei_metro")]_vars

C19_Witness ==
    /\ Len(session) >= 2
    /\ session[1].style = "tech_gradient"
    /\ session[2].style = "taipei_metro"
    /\ looked_up.called
    /\ looked_up.style_type = "tech_gradient"
    /\ looked_up.profile = TECH_GRADIENT_STYLE

(***************************************************************************)
(* Claims on _hex_to_rgb (specification SpecHex).                          *)
(***************************************************************************)
\* C9: for a colour string of six hexadecimal digits, with or without a
\* leading '#', _hex_to_rgb returns the triple whose channel i (0, 1, 2) is
\* the value of digits 2i and 2i+1, each in 0..255; "#E3002C" gives
\* (227, 0, 44).
C9_HexToRgbChannels ==
    rgb_result.exc # "not called" =>
        LET d == SubSeq(hex_color, Len(hex_color) - 5, Len(hex_color))
        IN  /\ rgb_result.exc = "none"
            /\ \A i \in 0..2 :
                /\ rgb_result.rgb[i + 1]
                     = 16 * HexValue[d[2 * i + 1]] + HexValue[d[2 * i + 2]]
                /\ rgb_result.rgb[i + 1] \in 0..255
            /\ hex_color = <<"#", "E", "3", "0", "0", "2", "C">>
                => rgb_result.rgb = <<227, 0, 44>>

C9_Witness ==
    /\ hex_color = <<"#", "E", "3", "0", "0", "2", "C">>
    /\ rgb_result.exc = "none"

====
